---------------------------- MODULE Spec2Model ----------------------------
(***************************************************************************)
(* Mallard_Visualizer: the capture -> ring buffer -> render pipeline of    *)
(* src/oscilloscope.cpp (the later of the two drafts in that file, lines   *)
(* 337-775, unless a definition says otherwise).                           *)
(*                                                                         *)
(* Three specifications share the variables:                               *)
(*   Spec      RingBuffer::write / RingBuffer::read as whole operations    *)
(*   RaceSpec  the same two operations, one memory access per step         *)
(*   SysSpec   the capture thread, the render loop and the shutdown path   *)
(***************************************************************************)
EXTENDS Integers, Sequences, FiniteSets, TLC

\* ------------------------------------------------------------ constants
\* static const int BUFFER_COUNT = 4
BUFFER_COUNT == 4

\* const int BUFFER_FRAMES = 256 in the source; the model keeps the frame
\* layout (interleaved stereo pairs) with a small number of pairs.
BUFFER_FRAMES == 2

\* const int TOTAL_SAMPLES = BUFFER_FRAMES * 2
TOTAL_SAMPLES == BUFFER_FRAMES * 2

\* how many frames the producer hands to write in one behaviour
MaxWrites == 9

\* how many reads are followed after the last write of a run
MaxReads == 6

\* how many frames the backend delivers in one behaviour of SysSpec
MaxCaptured == 3

\* how many chunks, of any size, the backend delivers in one behaviour of SysSpec
MaxDelivered == 4

\* const auto frame_duration = microseconds(16667) in the source; the model
\* counts time in units of which a frame lasts this many.
frame_duration == 2

\* the clock value up to which SchedSpec follows the render loop
MaxTime == 12

\* The floats of the visualizer (levels, signals, decay values) are counted in
\* units of the default decay__factor, 0.025f: 1.0f is 40 of them.
LevelOne == 40

\* / 32767.0f: the positive sample ceiling of the peak and RMS levels
FULL_SCALE == 32767

\* / 32768.0f: the divisor of drawBarGraph's samples
BAR_SCALE == 32768

\* const float rise_factor = 0.6f (drawVuMeter, drawBarGraph), in tenths
rise_factor == 6

\* const float rise_factor = 0.5f (drawEclipse, drawCustomShape), in tenths
shape_rise_factor == 5

\* const float color_decay_rate = 0.025f
color_decay_rate == 1

\* enum BuiltInMode
OSCILLOSCOPE == 0
VU_METER == 1
BAR_GRAPH == 2
GALAXY == 3
ECLIPSE == 5
NUM_BUILT_IN_MODES == 6

\* const int num_bars = 32 in the source
num_bars == 2

\* const int num_points = 128 in the source
num_points == 2

\* total_vertices * points_per_vertex_side (40 per polygon side) in the source
total_points == 2

\* the widest and highest window looked at, in cells
MaxWidth == 3

\* const int max_particles = 1000 in the source
max_particles == 2

\* max_particles * particle_spawn_rate_factor: 1000 * 0.05f = 50 in the source
MaxSpawn == 2

\* the longest life dis_life gives a particle, in ticks
MaxLife == 3

\* overall_amplitude > 0.05f, in units of 1 / LevelOne
spawn_threshold == 2

\* the highest level and fade value FadeSpec looks at, in grid units
MaxFade == 7

\* the largest decay_rate FadeSpec looks at, in grid units
MaxRate == 3

\* the coordinates GeomSpec looks at are -MaxCoord .. MaxCoord
MaxCoord == 2

\* the level above which DrawSpec stops following a smoother
MaxLevel == 44

\* the longest colour ramp ColorSpec looks at
MaxRamp == 4

\* the longest configuration file ConfigSpec looks at, in lines
MaxLines == 3

\* curses: COLOR_GREEN
COLOR_GREEN == 2

VARIABLES
    m_head,        \* RingBuffer::m_head
    m_tail,        \* RingBuffer::m_tail
    m_buffer,      \* RingBuffer::m_buffer[BUFFER_COUNT][TOTAL_SAMPLES]
    leftAudio,     \* main: int16_t leftAudio[BUFFER_FRAMES]  (read's destLeft)
    rightAudio,    \* main: int16_t rightAudio[BUFFER_FRAMES] (read's destRight)
    readRet,       \* value returned by the last call of read ("none" before any)
    nw,            \* number of frames handed to write so far
    runEmpty,      \* history: the buffer was empty when the current run of writes began
    runWrites,     \* history: writes in the current run (no read in between)
    runReads,      \* history: reads since the last write
    ppc,           \* RaceSpec: where the producer is inside write
    p_head,        \* write's local head
    p_i,           \* write's std::copy position
    cpc,           \* RaceSpec: where the consumer is inside its tick
    c_tail,        \* read's local tail
    c_head,        \* read's local head
    c_i,           \* read's copy position (sample index in the slot)
    c_steps,       \* history: steps the consumer has taken since its tick began
    backend,       \* the build: "pipewire" (USE_PIPEWIRE) or "pulse"
    running,       \* std::atomic<bool> running
    audio_stream_active,  \* std::atomic<bool> audio_stream_active
    rpc,           \* where main is (the render loop)
    apc,           \* where audioCaptureThread is
    global_loop,   \* global_pw_loop / global_pa_loop: "null", "loop" (the live loop
                   \* of this iteration) or "dangling" (a loop already freed)
    quitPosted,    \* pw_main_loop_quit / pa_mainloop_quit was called on the loop
    streamState,   \* the backend's state of data.stream ("none": no stream)
    n_bytes,       \* on_process: n_bytes / stream_read_callback: length, of the last chunk
    ndeliv,        \* history: number of chunks the backend has delivered
    nw_disc,       \* history: number of frames written when the stream last went inactive
    now,           \* std::chrono::steady_clock::now()
    next_frame_time,  \* main: next_frame_time
    sleep_duration,   \* main: sleep_duration of the last tick that computed it
    tpc,           \* SchedSpec: where the render loop is in its tick
    work,          \* history: the time this tick spent between the loop test and the sleep
    late,          \* history: the last completed tick finished after its deadline
    currentModeIdx,   \* main: currentModeIdx
    vuMeterMode,      \* visualizer.cpp: vuMeterMode ("VU_RMS" or "VU_PEAK")
    decay__factor,    \* config_parser: decay__factor, in units of 1 / LevelOne
    leftLevel,        \* drawVuMeter: static leftLevel
    rightLevel,       \* drawVuMeter: static rightLevel
    leftColorDecay,   \* drawVuMeter: static leftColorDecay
    rightColorDecay,  \* drawVuMeter: static rightColorDecay
    leftPeakHeights,  \* drawBarGraph: static leftPeakHeights[num_bars]
    rightPeakHeights, \* drawBarGraph: static rightPeakHeights[num_bars]
    barLeftColorDecay,   \* drawBarGraph: static leftColorDecay[num_bars]
    barRightColorDecay,  \* drawBarGraph: static rightColorDecay[num_bars]
    pointAmplitudes,  \* drawEclipse: static pointAmplitudes[num_points]
    shapeAmplitudes,  \* drawCustomShape: static pointAmplitudes[total_points]
    maxSeen,          \* history: per smoother of the displayed mode, the largest signal fed to it
    amplitude_percent,  \* selectColorByAmplitude: the argument, in units of 1 / LevelOne
    colorIdx,         \* selectColorByAmplitude: colorIdx (-1: not computed)
    pairID,           \* selectColorByAmplitude: the value returned
    lastAmplitude,    \* history: the argument of the call before
    lastIdx,          \* history: colorIdx of the call before
    spc,              \* ColorSpec: "call" (about to select) or "done"
    file_open,        \* ConfigParser::parse: file.is_open()
    file,             \* the lines of ~/.config/oscilloscope.conf
    lineNum,          \* ConfigParser::parse: lineNum, the lines read so far
    parsing_visualizer,  \* ConfigParser::parse: parsing_visualizer
    current_visualizer,  \* ConfigParser::parse: current_visualizer.polygons
    gradientColorPairs,  \* ConfigParser::gradientColorPairs
    customVisualizers,   \* ConfigParser::customVisualizers
    parseRet,         \* what parse returned ("none" before it returns)
    has_colors,       \* curses: has_colors()
    colorPairIDs,     \* oscilloscope.cpp: colorPairIDs
    kpc,              \* ConfigSpec: where main is in loading the configuration
    left_peak,        \* drawVuMeter: int16_t left_peak after the loop
    right_peak,       \* drawVuMeter: int16_t right_peak after the loop
    peak_level,       \* drawVuMeter, VU_PEAK: <<left_current_level, right_current_level>>
    rms_level,        \* drawVuMeter, VU_RMS: <<left_current_level, right_current_level>>
    bar_rms,          \* drawBarGraph: rms of each bar, the left channel's then the right's
    point_rms,        \* drawEclipse: current_rms of each point
    anpc,             \* AnalyzerSpec: "analyze" or "done"
    ray,              \* getIntersectionDist: <<ray_x, ray_y>>
    p1,               \* getIntersectionDist: <<p1x, p1y>>
    p2,               \* getIntersectionDist: <<p2x, p2y>>
    dist,             \* getIntersectionDist: the value returned, as a fraction
    visualizer_polygons,  \* drawCustomShape: visualizer.polygons
    min_dist,         \* drawCustomShape (DISTORT): min_dist after the loops
    gpc,              \* GeomSpec: "call" or "done"
    vis_width,        \* main: vis_width, the width of the window
    vis_height,       \* main: vis_height, the height of the window
    particles,        \* drawGalaxy: static particles
    overall_amplitude,  \* drawGalaxy: overall_amplitude of the last tick
    spawned,          \* history: particles pushed by the last tick
    spawn_active,     \* history: audio_active of the last tick
    xpc,              \* GalaxySpec: "audio" or "draw"
    idx_read,         \* history: the sample indexes the draw call read
    cells,            \* history: the cells <<y, x>> the draw call gave to mvwaddch
    div_zero,         \* history: the draw call divided by zero
    zpc,              \* SizeSpec: "call" or "done"
    loop_mutex,       \* std::mutex loop_mutex: "free" or the holder, "main",
                      \* "capture" or "handler"
    hpc,              \* SigSpec: signal_handler's position
    sig_thread,       \* SigSpec: the thread the signal interrupted
    fade_level,       \* FadeSpec: the level handed to getFadedColorPairID
    fade_value,       \* FadeSpec: the lastDecay the caller keeps
    fade_rate,        \* FadeSpec: the decay_rate handed to it
    fade_start,       \* history: lastDecay when the level last changed
    fade_calls        \* history: the calls since the level last changed

rbVars   == <<m_head, m_tail, m_buffer, leftAudio, rightAudio, readRet, nw>>
histVars == <<runEmpty, runWrites, runReads>>
raceVars == <<ppc, p_head, p_i, cpc, c_tail, c_head, c_i, c_steps>>
sysVars  == <<backend, running, audio_stream_active, rpc, apc,
               global_loop, quitPosted, streamState>>
delivVars == <<n_bytes, ndeliv, nw_disc>>
\* the variables the ring buffer, race and system specifications share
coreVars == <<rbVars, histVars, raceVars, sysVars, delivVars>>
schedVars == <<now, next_frame_time, sleep_duration, tpc, work, late>>
drawVars == <<currentModeIdx, vuMeterMode, decay__factor, leftLevel, rightLevel,
              leftColorDecay, rightColorDecay, leftPeakHeights, rightPeakHeights,
              barLeftColorDecay, barRightColorDecay, pointAmplitudes,
              shapeAmplitudes, maxSeen>>
\* the draw state the configuration does not set
levelVars == <<currentModeIdx, vuMeterMode, leftLevel, rightLevel,
               leftColorDecay, rightColorDecay, leftPeakHeights, rightPeakHeights,
               barLeftColorDecay, barRightColorDecay, pointAmplitudes,
               shapeAmplitudes, maxSeen>>
\* the variables of the specifications of one part of the program each
selVars == <<amplitude_percent, colorIdx, pairID, lastAmplitude, lastIdx, spc>>
cfgVars == <<file_open, file, lineNum, parsing_visualizer, current_visualizer,
             gradientColorPairs, customVisualizers, parseRet, has_colors,
             colorPairIDs, kpc>>
anaVars == <<left_peak, right_peak, peak_level, rms_level, bar_rms, point_rms, anpc>>
\* the variables of the specifications that follow ConfigSpec
geomVars == <<ray, p1, p2, dist, visualizer_polygons, min_dist, gpc>>
winVars == <<vis_width, vis_height>>
galaxyVars == <<particles, overall_amplitude, spawned, spawn_active, xpc>>
sizeVars == <<idx_read, cells, div_zero, zpc>>
sigVars == <<loop_mutex, hpc, sig_thread>>
fadeVars == <<fade_level, fade_value, fade_rate, fade_start, fade_calls>>
moreVars == <<anaVars, geomVars, winVars, galaxyVars, sizeVars, sigVars, fadeVars>>
\* the ring buffer, race and system variables but the frame of main and the flag
coreRest == <<m_head, m_tail, m_buffer, readRet, nw, histVars, raceVars, backend,
              running, rpc, apc, global_loop, quitPosted, streamState, delivVars>>
sideVars == <<schedVars, drawVars, selVars, cfgVars, moreVars>>
\* everything the pacing steps leave alone
schedFrozen == <<coreVars, drawVars, selVars, cfgVars, moreVars>>
\* everything the drawing steps leave alone
drawFrozen == <<m_head, m_tail, m_buffer, readRet, nw, histVars, raceVars, backend,
                running, apc, global_loop, quitPosted, streamState, delivVars,
                schedVars, selVars, cfgVars, moreVars>>
\* what the ring buffer and race specifications never touch besides sysVars
otherVars == <<delivVars, sideVars>>
vars     == <<coreVars, sideVars>>

\* ------------------------------------------------------------ frames
SampleIdx == 0 .. TOTAL_SAMPLES - 1
PairIdx   == 0 .. BUFFER_FRAMES - 1
SlotIdx   == 0 .. BUFFER_COUNT - 1

\* The n-th frame delivered by the audio backend (n >= 1): every sample of
\* every frame is different, so a frame and a sample position can be told
\* from a value.
Sample(n, i) == n * TOTAL_SAMPLES + i
Frame(n)     == [i \in SampleIdx |-> Sample(n, i)]

\* int16_t m_buffer[...] = {{0}}, int16_t leftAudio[BUFFER_FRAMES] = {0}
ZeroFrame == [i \in SampleIdx |-> 0]
ZeroChan  == [i \in PairIdx |-> 0]

DeintLeftPlain(src) == [i \in PairIdx |-> src[i]]
\* what read's loop stores in destLeft / destRight from one slot
DeintLeft(src)  == [i \in PairIdx |-> src[i * 2]]
DeintRight(src) == [i \in PairIdx |-> src[i * 2 + 1]]

\* ------------------------------------------------------------ RingBuffer
NextIndexNoWrap(i) == i + 1
\* (head + 1) % BUFFER_COUNT, (tail + 1) % BUFFER_COUNT
NextIndex(i) == (i + 1) % BUFFER_COUNT

WriteSlotNext(head) == (head + 1) % BUFFER_COUNT
\* write copies into m_buffer[head], the slot at the head it loaded
WriteSlot(head) == head

ReadSlotNewest(tail, head) == (head + BUFFER_COUNT - 1) % BUFFER_COUNT
\* read copies out of m_buffer[tail]
ReadSlot(tail, head) == tail

ReadEmptyNever(tail, head) == FALSE
\* if (tail == head) return false;
ReadEmpty(tail, head) == tail = head

\* void RingBuffer::write(const int16_t* data), as one step.  The test
\* next_head == m_tail has an empty body: nothing depends on it.
write(data) ==
    LET head      == m_head
        next_head == NextIndex(head)
    IN  /\ m_buffer' = [m_buffer EXCEPT ![WriteSlot(head)] = data]
        /\ m_head' = next_head
        /\ UNCHANGED m_tail

\* bool RingBuffer::read(int16_t* destLeft, int16_t* destRight), as one step
read ==
    LET tail == m_tail
        head == m_head
    IN  /\ IF ReadEmpty(tail, head)
           THEN /\ readRet' = "false"
                /\ UNCHANGED <<m_tail, leftAudio, rightAudio>>
           ELSE /\ leftAudio'  = DeintLeft(m_buffer[ReadSlot(tail, head)])
                /\ rightAudio' = DeintRight(m_buffer[ReadSlot(tail, head)])
                /\ m_tail' = NextIndex(tail)
                /\ readRet' = "true"
        /\ UNCHANGED <<m_head, m_buffer>>

\* The frames successive reads would return with no write in between:
\* the slots from tail up to, not including, head.
Unread ==
    [j \in 1 .. ((m_head - m_tail + BUFFER_COUNT) % BUFFER_COUNT)
        |-> m_buffer[(m_tail + j - 1) % BUFFER_COUNT]]

\* ------------------------------------------------------------ Spec
RbInit ==
    /\ m_head = 0
    /\ m_tail = 0
    /\ m_buffer = [s \in SlotIdx |-> ZeroFrame]
    /\ leftAudio = ZeroChan
    /\ rightAudio = ZeroChan
    /\ readRet = "none"
    /\ nw = 0

HistInit ==
    /\ runEmpty = TRUE
    /\ runWrites = 0
    /\ runReads = 0

\* no call of write or read is in progress
RaceIdle ==
    /\ ppc = "idle"
    /\ p_head = 0
    /\ p_i = 0
    /\ cpc = "tick"
    /\ c_tail = 0
    /\ c_head = 0
    /\ c_i = 0
    /\ c_steps = 0

\* the threads of SysSpec before main's loop and audioCaptureThread's loop
\* begin: running(true), audio_stream_active(false), the loop handle nullptr
SysStart ==
    /\ running = TRUE
    /\ audio_stream_active = FALSE
    /\ rpc = "loop_test"
    /\ apc = "loop_test"
    /\ global_loop = "null"
    /\ quitPosted = FALSE
    /\ streamState = "none"

\* no chunk has been delivered
DelivInit ==
    /\ n_bytes = 0
    /\ ndeliv = 0
    /\ nw_disc = 0

\* auto next_frame_time = steady_clock::now(); the clock starts at 0
SchedInit ==
    /\ now = 0
    /\ next_frame_time = 0
    /\ sleep_duration = 0
    /\ tpc = "top"
    /\ work = 0
    /\ late = FALSE

BarIdx   == 0 .. num_bars - 1
PointIdx == 0 .. num_points - 1
ShapeIdx == 0 .. total_points - 1

\* the static locals of the draw functions before their first call
DrawZero ==
    /\ leftLevel = 0
    /\ rightLevel = 0
    /\ leftColorDecay = 0
    /\ rightColorDecay = 0
    /\ leftPeakHeights = [b \in BarIdx |-> 0]
    /\ rightPeakHeights = [b \in BarIdx |-> 0]
    /\ barLeftColorDecay = [b \in BarIdx |-> 0]
    /\ barRightColorDecay = [b \in BarIdx |-> 0]
    /\ pointAmplitudes = [i \in PointIdx |-> 0]
    /\ shapeAmplitudes = [i \in ShapeIdx |-> 0]
    /\ maxSeen = <<>>

\* int currentModeIdx = 0; VuMeterMode vuMeterMode = VU_RMS; float decay__factor = 0.025f
DrawIdle ==
    /\ DrawZero
    /\ currentModeIdx = 0
    /\ vuMeterMode = "VU_RMS"
    /\ decay__factor = 1

\* the parts of the program a specification does not exercise, at rest
\* no colour has been selected yet
SelIdle ==
    /\ amplitude_percent = 0
    /\ colorIdx = 0 - 1
    /\ pairID = 0
    /\ lastAmplitude = 0
    /\ lastIdx = 0 - 1
    /\ spc = "idle"

\* the configuration has not been looked at: a new ConfigParser, the global
\* colorPairIDs empty
ParserIdle ==
    /\ file_open = FALSE
    /\ file = <<>>
    /\ lineNum = 0
    /\ parsing_visualizer = FALSE
    /\ current_visualizer = <<>>
    /\ gradientColorPairs = <<>>
    /\ customVisualizers = <<>>
    /\ parseRet = "none"
    /\ has_colors = FALSE
    /\ kpc = "idle"

\* std::vector<int> colorPairIDs starts empty
CfgIdle == ParserIdle /\ colorPairIDs = <<>>

\* no frame has been analysed yet
AnaIdle ==
    /\ left_peak = 0
    /\ right_peak = 0
    /\ peak_level = <<0, 0>>
    /\ rms_level = <<0, 0>>
    /\ bar_rms = <<>>
    /\ point_rms = <<>>
    /\ anpc = "idle"

\* the value -1.0f, as a fraction
NoHit == [hit |-> FALSE, num |-> 0 - 1, den |-> 1]

\* no ray has been cast yet
GeomIdle ==
    /\ ray = <<1, 0>>
    /\ p1 = <<0, 0>>
    /\ p2 = <<0, 0>>
    /\ dist = NoHit
    /\ visualizer_polygons = <<>>
    /\ min_dist = NoHit
    /\ gpc = "idle"

\* the window of a terminal of MaxWidth x MaxWidth cells
WinIdle == vis_width = MaxWidth /\ vis_height = MaxWidth

\* std::vector<Particle> particles starts empty
GalaxyIdle ==
    /\ particles = <<>>
    /\ overall_amplitude = 0
    /\ spawned = 0
    /\ spawn_active = FALSE
    /\ xpc = "idle"

\* no draw call has been followed yet
SizeIdle ==
    /\ idx_read = {}
    /\ cells = {}
    /\ div_zero = FALSE
    /\ zpc = "idle"

\* no signal has been delivered, nobody holds loop_mutex
SigIdle ==
    /\ loop_mutex = "free"
    /\ hpc = "none"
    /\ sig_thread = "main"

\* getFadedColorPairID has not been followed yet
FadeIdle ==
    /\ fade_level = 0
    /\ fade_value = 0
    /\ fade_rate = color_decay_rate
    /\ fade_start = 0
    /\ fade_calls = 0

MoreIdle == AnaIdle /\ GeomIdle /\ WinIdle /\ GalaxyIdle /\ SizeIdle /\ SigIdle /\ FadeIdle

SideIdle == SchedInit /\ DrawIdle /\ SelIdle /\ CfgIdle /\ MoreIdle
OtherIdle == DelivInit /\ SideIdle

Init == RbInit /\ HistInit /\ RaceIdle /\ SysStart /\ OtherIdle /\ backend = "pipewire"

\* the producer calls write with the next frame
RbWrite ==
    /\ nw < MaxWrites
    /\ write(Frame(nw + 1))
    /\ nw' = nw + 1
    /\ runEmpty'  = IF runReads > 0 \/ runWrites = 0 THEN m_head = m_tail ELSE runEmpty
    /\ runWrites' = IF runReads > 0 THEN 1 ELSE runWrites + 1
    /\ runReads'  = 0
    /\ UNCHANGED <<leftAudio, rightAudio, readRet>>
    /\ UNCHANGED <<raceVars, sysVars, otherVars>>

\* the consumer calls read
RbRead ==
    /\ runReads < MaxReads
    /\ read
    /\ runReads' = runReads + 1
    /\ UNCHANGED <<nw, runEmpty, runWrites>>
    /\ UNCHANGED <<raceVars, sysVars, otherVars>>

Next == RbWrite \/ RbRead

Spec == Init /\ [][Next]_vars

\* the pair of channels read hands back when it copies frame n
GotFrame(n) == leftAudio = DeintLeft(Frame(n)) /\ rightAudio = DeintRight(Frame(n))

\* ------------------------------------------------------------ claims C1-C3, C5
\* C1 (as stated): for every k in 1..BUFFER_COUNT, after k writes into an
\* empty buffer with no read in between, the next k reads each return true and
\* hand back the written frames in write order, and the read after them
\* returns false.
C1_FifoUpToCapacity ==
    (runEmpty /\ runWrites \in 1 .. BUFFER_COUNT) =>
        /\ (runReads \in 1 .. runWrites =>
                readRet = "true" /\ GotFrame(nw - runWrites + runReads))
        /\ (runReads = runWrites + 1 => readRet = "false")

\* C1 (amended): the same for every k in 1..BUFFER_COUNT-1, the number of
\* frames the head/tail pair can hold unread.
C1_FifoBelowCapacity ==
    (runEmpty /\ runWrites \in 1 .. BUFFER_COUNT - 1) =>
        /\ (runReads \in 1 .. runWrites =>
                readRet = "true" /\ GotFrame(nw - runWrites + runReads))
        /\ (runReads = runWrites + 1 => readRet = "false")

\* C1 witness: three frames written from an empty buffer whose indices had
\* already advanced, all three read back, and the fourth read found nothing.
C1_Witness ==
    /\ runEmpty /\ runWrites = BUFFER_COUNT - 1 /\ runReads = BUFFER_COUNT
    /\ nw > BUFFER_COUNT - 1
    /\ readRet = "false" /\ GotFrame(nw)

\* C2: after BUFFER_COUNT+k writes (k >= 1) into an empty buffer with no read
\* in between, the next BUFFER_COUNT reads return the BUFFER_COUNT most recent
\* frames in write order and the read after them returns false.
C2_OverrunKeepsNewest ==
    (runEmpty /\ runWrites > BUFFER_COUNT) =>
        /\ (runReads \in 1 .. BUFFER_COUNT =>
                readRet = "true" /\ GotFrame(nw - BUFFER_COUNT + runReads))
        /\ (runReads = BUFFER_COUNT + 1 => readRet = "false")

\* C3: a write made while the next head equals the tail discards only the
\* oldest unread frame: afterwards the unread frames are the former ones
\* without the oldest, followed by the frame just written.
C3_OverwriteOldest ==
    [][(nw' = nw + 1 /\ NextIndex(m_head) = m_tail) =>
            Unread' = Append(Tail(Unread), Frame(nw'))]_vars

\* C5: the frame a successful read hands back is one of the BUFFER_COUNT-1
\* frames most recently written when the read is made.
C5_Staleness ==
    (runReads >= 1 /\ readRet = "true") =>
        \E n \in 1 .. nw : n > nw - (BUFFER_COUNT - 1) /\ GotFrame(n)

\* C5 witness: the producer lapped the consumer (more than BUFFER_COUNT writes
\* with no read) and the read handed back the third most recent frame.
C5_Witness ==
    /\ runWrites > BUFFER_COUNT /\ runReads = 1 /\ readRet = "true"
    /\ GotFrame(nw - (BUFFER_COUNT - 2))

\* ------------------------------------------------------------ RaceSpec
\* write and read one memory access at a time.  The producer is the capture
\* callback calling audioBuffer.write; the consumer is the render loop's tick
\* with the stream active: audioBuffer.read, then the sleep that ends the tick.

\* the consumer's steps in one tick are counted up to one more than the
\* number a read can take: two loads, TOTAL_SAMPLES copies, one store
MaxTickSteps == TOTAL_SAMPLES + 3
StepCount(n) == IF n <= MaxTickSteps THEN n + 1 ELSE n

\* size_t head = m_head.load(relaxed); the producer takes up the next frame
P_LoadHead ==
    /\ ppc = "idle"
    /\ nw < MaxWrites
    /\ nw' = nw + 1
    /\ p_head' = m_head
    /\ ppc' = "load_tail"
    /\ UNCHANGED <<m_head, m_tail, m_buffer, leftAudio, rightAudio, readRet>>
    /\ UNCHANGED <<p_i, cpc, c_tail, c_head, c_i, c_steps>>
    /\ UNCHANGED <<histVars, sysVars, otherVars>>

\* if (next_head == m_tail.load(acquire)) {}  : the load, and nothing else
P_LoadTail ==
    /\ ppc = "load_tail"
    /\ ppc' = "copy"
    /\ p_i' = 0
    /\ UNCHANGED <<rbVars, histVars, sysVars, otherVars>>
    /\ UNCHANGED <<p_head, cpc, c_tail, c_head, c_i, c_steps>>

\* std::copy(data, data + TOTAL_SAMPLES, m_buffer[head]), one sample
P_Copy ==
    /\ ppc = "copy"
    /\ m_buffer' = [m_buffer EXCEPT ![WriteSlot(p_head)][p_i] = Frame(nw)[p_i]]
    /\ p_i' = p_i + 1
    /\ ppc' = IF p_i + 1 = TOTAL_SAMPLES THEN "store_head" ELSE "copy"
    /\ UNCHANGED <<m_head, m_tail, leftAudio, rightAudio, readRet, nw>>
    /\ UNCHANGED <<p_head, cpc, c_tail, c_head, c_i, c_steps>>
    /\ UNCHANGED <<histVars, sysVars, otherVars>>

\* m_head.store(next_head, release)
P_StoreHead ==
    /\ ppc = "store_head"
    /\ m_head' = NextIndex(p_head)
    /\ ppc' = "idle"
    /\ UNCHANGED <<m_tail, m_buffer, leftAudio, rightAudio, readRet, nw>>
    /\ UNCHANGED <<p_head, p_i, cpc, c_tail, c_head, c_i, c_steps>>
    /\ UNCHANGED <<histVars, sysVars, otherVars>>

\* const size_t tail = m_tail.load(relaxed); the tick's read begins
C_LoadTail ==
    /\ cpc = "tick"
    /\ c_tail' = m_tail
    /\ cpc' = "load_head"
    /\ c_steps' = 1
    /\ UNCHANGED <<rbVars, histVars, sysVars, otherVars>>
    /\ UNCHANGED <<ppc, p_head, p_i, c_head, c_i>>

C_AfterLoadSpin(tail, head) == IF tail = head THEN "load_head" ELSE "copy"
\* const size_t head = m_head.load(acquire); if (tail == head) return false;
C_AfterLoad(tail, head) == IF ReadEmpty(tail, head) THEN "sleep" ELSE "copy"

C_LoadHead ==
    /\ cpc = "load_head"
    /\ c_head' = m_head
    /\ cpc' = C_AfterLoad(c_tail, m_head)
    /\ readRet' = IF C_AfterLoad(c_tail, m_head) = "copy" THEN readRet ELSE "false"
    /\ c_i' = 0
    /\ c_steps' = StepCount(c_steps)
    /\ UNCHANGED <<m_head, m_tail, m_buffer, leftAudio, rightAudio, nw>>
    /\ UNCHANGED <<ppc, p_head, p_i, c_tail>>
    /\ UNCHANGED <<histVars, sysVars, otherVars>>

\* destLeft[i] = source_buffer[i * 2]; destRight[i] = source_buffer[i * 2 + 1];
\* one sample: c_i is the index in the slot
C_Copy ==
    /\ cpc = "copy"
    /\ IF c_i % 2 = 0
       THEN /\ leftAudio' = [leftAudio EXCEPT
                    ![c_i \div 2] = m_buffer[ReadSlot(c_tail, c_head)][c_i]]
            /\ UNCHANGED rightAudio
       ELSE /\ rightAudio' = [rightAudio EXCEPT
                    ![c_i \div 2] = m_buffer[ReadSlot(c_tail, c_head)][c_i]]
            /\ UNCHANGED leftAudio
    /\ c_i' = c_i + 1
    /\ cpc' = IF c_i + 1 = TOTAL_SAMPLES THEN "store_tail" ELSE "copy"
    /\ c_steps' = StepCount(c_steps)
    /\ UNCHANGED <<m_head, m_tail, m_buffer, readRet, nw>>
    /\ UNCHANGED <<ppc, p_head, p_i, c_tail, c_head>>
    /\ UNCHANGED <<histVars, sysVars, otherVars>>

\* m_tail.store((tail + 1) % BUFFER_COUNT, release); return true;
C_StoreTail ==
    /\ cpc = "store_tail"
    /\ m_tail' = NextIndex(c_tail)
    /\ readRet' = "true"
    /\ cpc' = "sleep"
    /\ c_steps' = StepCount(c_steps)
    /\ UNCHANGED <<m_head, m_buffer, leftAudio, rightAudio, nw>>
    /\ UNCHANGED <<ppc, p_head, p_i, c_tail, c_head, c_i>>
    /\ UNCHANGED <<histVars, sysVars, otherVars>>

\* std::this_thread::sleep_for(sleep_duration): the tick ends, the next begins
C_Sleep ==
    /\ cpc = "sleep"
    /\ cpc' = "tick"
    /\ c_steps' = 0
    /\ UNCHANGED <<rbVars, histVars, sysVars, otherVars>>
    /\ UNCHANGED <<ppc, p_head, p_i, c_tail, c_head, c_i>>

Producer == P_LoadHead \/ P_LoadTail \/ P_Copy \/ P_StoreHead
Consumer == C_LoadTail \/ C_LoadHead \/ C_Copy \/ C_StoreTail \/ C_Sleep

RaceNext ==
    \/ P_LoadHead
    \/ P_LoadTail
    \/ P_Copy
    \/ P_StoreHead
    \/ C_LoadTail
    \/ C_LoadHead
    \/ C_Copy
    \/ C_StoreTail
    \/ C_Sleep

RaceSpec == Init /\ [][RaceNext]_vars

\* The render thread is scheduled; nothing is assumed of the producer, which
\* may stop anywhere, in the middle of a write included.
RaceFair == RaceSpec /\ WF_vars(Consumer)

\* ------------------------------------------------------------ claims C4, C8
\* C4: the producer never stores into a slot while the consumer is copying
\* that slot out, and so the channels a successful read hands back are those
\* of one whole written frame.
C4_NoTornFrame ==
    /\ ~(ppc = "copy" /\ cpc = "copy" /\ WriteSlot(p_head) = ReadSlot(c_tail, c_head))
    /\ ((cpc = "sleep" /\ readRet = "true") => \E n \in 1 .. nw : GotFrame(n))

\* C8: a tick's read never waits for the producer: from the start of a tick
\* the consumer reaches its sleep within MaxTickSteps steps of its own,
\* whatever the producer does (it need not take another step).
C8_TickNeverWaits ==
    /\ [](c_steps <= MaxTickSteps)
    /\ ((cpc = "tick") ~> (cpc = "sleep"))

\* C8 witness: a tick ended in its sleep with an empty buffer while the
\* producer was stopped in the middle of copying a frame into a slot.
C8_Witness ==
    /\ cpc = "sleep" /\ readRet = "false"
    /\ ppc = "copy" /\ p_i > 0

\* ------------------------------------------------------------ SysSpec
\* main's render loop, audioCaptureThread (both backends of the later draft),
\* the signal handler and shutdown_program.  write and read are whole steps.
frozenSys == <<histVars, raceVars, backend, sideVars>>

\* sizes in bytes of the chunks a backend may deliver
ChunkSizes == {0, 2 * TOTAL_SAMPLES - 2, 2 * TOTAL_SAMPLES, 2 * TOTAL_SAMPLES + 2}

\* ---- render thread (main)
\* while (running)
WhileRunning(r) == r

\* while (running) { next_frame_time += frame_duration; ...
R_LoopTest ==
    /\ rpc = "loop_test"
    /\ rpc' = IF WhileRunning(running) THEN "getch" ELSE "join"
    /\ UNCHANGED <<rbVars, delivVars, frozenSys>>
    /\ UNCHANGED <<running, audio_stream_active, apc, global_loop, quitPosted, streamState>>

\* int ch = getch(); if (ch != ERR) { ... 'q' -> shutdown_program ... }
R_Getch ==
    /\ rpc = "getch"
    /\ \E ch \in {"ERR", "q", "other"} :
          rpc' = IF ch = "q" THEN "shutdown_flag" ELSE "break_test"
    /\ UNCHANGED <<rbVars, delivVars, frozenSys>>
    /\ UNCHANGED <<running, audio_stream_active, apc, global_loop, quitPosted, streamState>>

\* shutdown_program: running = false;
R_ShutdownFlag ==
    /\ rpc = "shutdown_flag"
    /\ running' = FALSE
    /\ rpc' = "shutdown_quit"
    /\ UNCHANGED <<rbVars, delivVars, frozenSys>>
    /\ UNCHANGED <<audio_stream_active, apc, global_loop, quitPosted, streamState>>

\* shutdown_program: lock_guard(loop_mutex); if (global_loop) quit(global_loop);
\* quitting a freed loop is undefined: the process dies, nothing happens, or
\* the store lands in whatever lives there now
R_ShutdownQuit ==
    /\ rpc = "shutdown_quit"
    /\ \/ /\ global_loop = "null"
          /\ rpc' = "break_test"
          /\ UNCHANGED <<apc, quitPosted>>
       \/ /\ global_loop = "loop"
          /\ quitPosted' = TRUE
          /\ rpc' = "break_test"
          /\ UNCHANGED apc
       \/ /\ global_loop = "dangling"
          /\ \/ rpc' = "crashed" /\ apc' = "crashed" /\ UNCHANGED quitPosted
             \/ rpc' = "break_test" /\ UNCHANGED <<apc, quitPosted>>
             \/ rpc' = "break_test" /\ quitPosted' = TRUE /\ UNCHANGED apc
    /\ UNCHANGED <<rbVars, delivVars, frozenSys>>
    /\ UNCHANGED <<running, audio_stream_active, global_loop, streamState>>

\* if (!running) break;
R_BreakTest ==
    /\ rpc = "break_test"
    /\ rpc' = IF running THEN "audio" ELSE "join"
    /\ UNCHANGED <<rbVars, delivVars, frozenSys>>
    /\ UNCHANGED <<running, audio_stream_active, apc, global_loop, quitPosted, streamState>>

StreamSilentNever(active) == FALSE
\* if (!audio_stream_active)
StreamSilent(active) == ~active

\* if (!audio_stream_active) { fill both with 0 } else { audioBuffer.read(...) }
R_Audio ==
    /\ rpc = "audio"
    /\ IF StreamSilent(audio_stream_active)
       THEN /\ leftAudio' = ZeroChan
            /\ rightAudio' = ZeroChan
            /\ UNCHANGED <<m_head, m_tail, m_buffer, readRet>>
       ELSE read
    /\ rpc' = "draw"
    /\ UNCHANGED <<nw, delivVars, frozenSys>>
    /\ UNCHANGED <<running, audio_stream_active, apc, global_loop, quitPosted, streamState>>

\* the draw function of the current mode, wrefresh(vis_win)
R_Draw ==
    /\ rpc = "draw"
    /\ rpc' = "present"
    /\ UNCHANGED <<rbVars, delivVars, frozenSys>>
    /\ UNCHANGED <<running, audio_stream_active, apc, global_loop, quitPosted, streamState>>

\* the disconnected message, the status line, refresh()
R_Present ==
    /\ rpc = "present"
    /\ rpc' = "sleep"
    /\ UNCHANGED <<rbVars, delivVars, frozenSys>>
    /\ UNCHANGED <<running, audio_stream_active, apc, global_loop, quitPosted, streamState>>

\* sleep_for(next_frame_time - now) when positive
R_Sleep ==
    /\ rpc = "sleep"
    /\ rpc' = "loop_test"
    /\ UNCHANGED <<rbVars, delivVars, frozenSys>>
    /\ UNCHANGED <<running, audio_stream_active, apc, global_loop, quitPosted, streamState>>

JoinDetached(a) == TRUE
\* audioThread.join() returns once audioCaptureThread has returned
JoinReturns(a) == a = "terminated"

\* if (audioThread.joinable()) audioThread.join(); delwin; endwin; return 0;
R_Join ==
    /\ rpc = "join"
    /\ JoinReturns(apc)
    /\ rpc' = "done"
    /\ UNCHANGED <<rbVars, delivVars, frozenSys>>
    /\ UNCHANGED <<running, audio_stream_active, apc, global_loop, quitPosted, streamState>>

\* void signal_handler(int) { running = false; } on SIGINT / SIGTERM
SignalHandler ==
    /\ rpc \notin {"done", "crashed"}
    /\ running
    /\ running' = FALSE
    /\ UNCHANGED <<rbVars, delivVars, frozenSys>>
    /\ UNCHANGED <<audio_stream_active, rpc, apc, global_loop, quitPosted, streamState>>

\* ---- capture thread (audioCaptureThread)
\* while (running) {   ...   }  (pw_deinit and) return
A_LoopTest ==
    /\ apc = "loop_test"
    /\ apc' = IF running THEN "new_loop" ELSE "terminated"
    /\ UNCHANGED <<rbVars, delivVars, frozenSys>>
    /\ UNCHANGED <<running, audio_stream_active, rpc, global_loop, quitPosted, streamState>>

\* PipeWire: data.loop = pw_main_loop_new(nullptr);
PW_NewLoop ==
    /\ backend = "pipewire"
    /\ apc = "new_loop"
    /\ quitPosted' = FALSE
    /\ apc' = "publish"
    /\ UNCHANGED <<rbVars, delivVars, frozenSys>>
    /\ UNCHANGED <<running, audio_stream_active, rpc, global_loop, streamState>>

\* PulseAudio: data.mainloop = pa_mainloop_new();
\* if (!data.mainloop) { if (running) sleep 1s; continue; }
PA_NewLoop ==
    /\ backend = "pulse"
    /\ apc = "new_loop"
    /\ \E ok \in BOOLEAN :
          IF ok THEN quitPosted' = FALSE /\ apc' = "publish"
                ELSE apc' = "backoff" /\ UNCHANGED quitPosted
    /\ UNCHANGED <<rbVars, delivVars, frozenSys>>
    /\ UNCHANGED <<running, audio_stream_active, rpc, global_loop, streamState>>

\* { lock_guard(loop_mutex); global_loop = data.loop; }
A_Publish ==
    /\ apc = "publish"
    /\ global_loop' = "loop"
    /\ apc' = IF backend = "pipewire" THEN "connect" ELSE "ctx_wait"
    /\ UNCHANGED <<rbVars, delivVars, frozenSys>>
    /\ UNCHANGED <<running, audio_stream_active, rpc, quitPosted, streamState>>

\* PipeWire: pw_stream_new_simple(...); pw_stream_connect(...);
PW_Connect ==
    /\ apc = "connect"
    /\ streamState' = "connecting"
    /\ apc' = "run"
    /\ UNCHANGED <<rbVars, delivVars, frozenSys>>
    /\ UNCHANGED <<running, audio_stream_active, rpc, global_loop, quitPosted>>

\* PulseAudio: pa_context_connect, then
\* while (running) { READY -> break; FAILED/TERMINATED -> break; iterate }
\* (an iteration that finds the context still connecting changes nothing)
PA_CtxWait ==
    /\ apc = "ctx_wait"
    /\ IF ~running
       THEN apc' = "ctx_fail"
       ELSE \E state \in {"PA_CONTEXT_READY", "PA_CONTEXT_FAILED"} :
               apc' = IF state = "PA_CONTEXT_READY" THEN "stream_connect" ELSE "ctx_fail"
    /\ UNCHANGED <<rbVars, delivVars, frozenSys>>
    /\ UNCHANGED <<running, audio_stream_active, rpc, global_loop, quitPosted, streamState>>

\* if (!context_ready) { pa_context_unref; pa_mainloop_free(data.mainloop);
\*   if (running) sleep 1s; continue; }   global_pa_loop is left as it is
PA_CtxFail ==
    /\ apc = "ctx_fail"
    /\ global_loop' = IF global_loop = "loop" THEN "dangling" ELSE global_loop
    /\ apc' = "backoff"
    /\ UNCHANGED <<rbVars, delivVars, frozenSys>>
    /\ UNCHANGED <<running, audio_stream_active, rpc, quitPosted, streamState>>

\* PulseAudio: pa_stream_new, set callbacks, pa_stream_connect_record
PA_StreamConnect ==
    /\ apc = "stream_connect"
    /\ streamState' = "PA_STREAM_CREATING"
    /\ apc' = "run"
    /\ UNCHANGED <<rbVars, delivVars, frozenSys>>
    /\ UNCHANGED <<running, audio_stream_active, rpc, global_loop, quitPosted>>

\* the state changes a PipeWire stream can report while its loop runs
PwNextStates(st) ==
    CASE st = "connecting" -> {"paused", "error", "unconnected"}
      [] st = "paused"     -> {"streaming", "error", "unconnected"}
      [] st = "streaming"  -> {"paused", "error", "unconnected"}
      [] OTHER             -> {}

on_state_changed_sticky(new_state) ==
    audio_stream_active' = (audio_stream_active \/ new_state = "streaming")
\* case PW_STREAM_STATE_STREAMING: audio_stream_active = true; break;
\* default: audio_stream_active = false; break;
on_state_changed(new_state) ==
    audio_stream_active' = (new_state = "streaming")

\* history: a store that takes audio_stream_active from true to false is a
\* disconnect; the frames written so far are the frames written before it
NoteDisconnect ==
    nw_disc' = IF audio_stream_active /\ ~audio_stream_active' THEN nw ELSE nw_disc

\* PipeWire, inside pw_main_loop_run: the stream changes state
PW_StateChanged ==
    /\ backend = "pipewire"
    /\ apc = "run"
    /\ \E new_state \in PwNextStates(streamState) :
          /\ streamState' = new_state
          /\ on_state_changed(new_state)
    /\ NoteDisconnect
    /\ UNCHANGED <<rbVars, n_bytes, ndeliv, frozenSys>>
    /\ UNCHANGED <<running, rpc, apc, global_loop, quitPosted>>

FullChunkAny(size) == size > 0
\* n_bytes >= sizeof(int16_t) * TOTAL_SAMPLES  (on_process)
\* to_write = min(length, sizeof(int16_t) * TOTAL_SAMPLES); to_write >= sizeof(int16_t) * TOTAL_SAMPLES
FullChunk(size) == size >= 2 * TOTAL_SAMPLES

\* if (n_bytes >= sizeof(int16_t) * TOTAL_SAMPLES) audioBuffer.write(...)
\* if (to_write >= sizeof(int16_t) * TOTAL_SAMPLES) audioBuffer.write(...)
DeliverChunk(size) ==
    /\ n_bytes' = size
    /\ ndeliv' = ndeliv + 1
    /\ UNCHANGED nw_disc
    /\ IF FullChunk(size)
       THEN /\ write(Frame(nw + 1))
            /\ nw' = nw + 1
            /\ UNCHANGED <<leftAudio, rightAudio, readRet>>
       ELSE UNCHANGED rbVars

\* PipeWire: on_process, called while the stream is streaming
PW_Process ==
    /\ backend = "pipewire"
    /\ apc \in {"run", "unpublish", "destroy"}
    /\ streamState = "streaming"
    /\ nw < MaxCaptured
    /\ ndeliv < MaxDelivered
    /\ \E size \in ChunkSizes : DeliverChunk(size)
    /\ UNCHANGED frozenSys
    /\ UNCHANGED <<running, audio_stream_active, rpc, apc, global_loop, quitPosted, streamState>>

\* the state changes a PulseAudio stream can report while its loop runs
PaNextStates(st) ==
    CASE st = "PA_STREAM_CREATING" -> {"PA_STREAM_READY", "PA_STREAM_FAILED"}
      [] st = "PA_STREAM_READY"    -> {"PA_STREAM_FAILED", "PA_STREAM_TERMINATED"}
      [] OTHER                     -> {}

\* stream_state_callback: READY -> audio_stream_active = true;
\* FAILED, TERMINATED -> audio_stream_active = false; pa_mainloop_quit(mainloop, 1)
stream_state_callback(state) ==
    CASE state = "PA_STREAM_READY" ->
            audio_stream_active' = TRUE /\ UNCHANGED quitPosted
      [] state \in {"PA_STREAM_FAILED", "PA_STREAM_TERMINATED"} ->
            audio_stream_active' = FALSE /\ quitPosted' = TRUE
      [] OTHER -> UNCHANGED <<audio_stream_active, quitPosted>>

\* PulseAudio, inside pa_mainloop_run: the stream changes state
PA_StateCallback ==
    /\ backend = "pulse"
    /\ apc = "run"
    /\ \E state \in PaNextStates(streamState) :
          /\ streamState' = state
          /\ stream_state_callback(state)
    /\ NoteDisconnect
    /\ UNCHANGED <<rbVars, n_bytes, ndeliv, frozenSys>>
    /\ UNCHANGED <<running, rpc, apc, global_loop>>

\* PulseAudio: stream_read_callback, called while the stream is ready
PA_ReadCallback ==
    /\ backend = "pulse"
    /\ apc = "run"
    /\ streamState = "PA_STREAM_READY"
    /\ nw < MaxCaptured
    /\ ndeliv < MaxDelivered
    /\ \E length \in ChunkSizes : DeliverChunk(length)
    /\ UNCHANGED frozenSys
    /\ UNCHANGED <<running, audio_stream_active, rpc, apc, global_loop, quitPosted, streamState>>

\* pw_main_loop_run / pa_mainloop_run return once quit was called on the loop
A_RunReturns ==
    /\ apc = "run"
    /\ quitPosted
    /\ apc' = IF backend = "pipewire" THEN "unpublish" ELSE "cleanup_flag"
    /\ UNCHANGED <<rbVars, delivVars, frozenSys>>
    /\ UNCHANGED <<running, audio_stream_active, rpc, global_loop, quitPosted, streamState>>

\* PulseAudio, after the run: audio_stream_active = false;
PA_CleanupFlag ==
    /\ apc = "cleanup_flag"
    /\ audio_stream_active' = FALSE
    /\ apc' = "unpublish"
    /\ NoteDisconnect
    /\ UNCHANGED <<rbVars, n_bytes, ndeliv, frozenSys>>
    /\ UNCHANGED <<running, rpc, global_loop, quitPosted, streamState>>

\* { lock_guard(loop_mutex); global_loop = nullptr; }
A_Unpublish ==
    /\ apc = "unpublish"
    /\ global_loop' = "null"
    /\ apc' = IF backend = "pipewire" THEN "destroy" ELSE "release"
    /\ UNCHANGED <<rbVars, delivVars, frozenSys>>
    /\ UNCHANGED <<running, audio_stream_active, rpc, quitPosted, streamState>>

\* PipeWire: pw_stream_destroy(data.stream); pw_main_loop_destroy(data.loop);
\* destroying the stream disconnects it, which on_state_changed hears as
\* PW_STREAM_STATE_UNCONNECTED
PW_Destroy ==
    /\ apc = "destroy"
    /\ streamState' = "none"
    /\ on_state_changed("unconnected")
    /\ apc' = "clear"
    /\ NoteDisconnect
    /\ UNCHANGED <<rbVars, n_bytes, ndeliv, frozenSys>>
    /\ UNCHANGED <<running, rpc, global_loop, quitPosted>>

\* PipeWire: audio_stream_active = false;
PW_Clear ==
    /\ apc = "clear"
    /\ audio_stream_active' = FALSE
    /\ apc' = "backoff"
    /\ NoteDisconnect
    /\ UNCHANGED <<rbVars, n_bytes, ndeliv, frozenSys>>
    /\ UNCHANGED <<running, rpc, global_loop, quitPosted, streamState>>

\* PulseAudio: if (state != UNCONNECTED) pa_stream_disconnect (which the
\* state callback hears as TERMINATED when the stream had not ended yet),
\* pa_stream_unref, pa_context_disconnect, pa_context_unref, pa_mainloop_free
PA_Release ==
    /\ apc = "release"
    /\ IF streamState \in {"PA_STREAM_CREATING", "PA_STREAM_READY"}
       THEN stream_state_callback("PA_STREAM_TERMINATED")
       ELSE UNCHANGED <<audio_stream_active, quitPosted>>
    /\ streamState' = "none"
    /\ apc' = "backoff"
    /\ NoteDisconnect
    /\ UNCHANGED <<rbVars, n_bytes, ndeliv, frozenSys>>
    /\ UNCHANGED <<running, rpc, global_loop>>

\* if (running) std::this_thread::sleep_for(std::chrono::seconds(1));
A_Backoff ==
    /\ apc = "backoff"
    /\ apc' = "loop_test"
    /\ UNCHANGED <<rbVars, delivVars, frozenSys>>
    /\ UNCHANGED <<running, audio_stream_active, rpc, global_loop, quitPosted, streamState>>

\* ---- the specification
SysInit ==
    /\ RbInit /\ HistInit /\ RaceIdle /\ SysStart /\ DelivInit /\ SideIdle
    /\ backend \in {"pipewire", "pulse"}

\* the steps main takes
RenderStep ==
    \/ R_LoopTest \/ R_Getch \/ R_ShutdownFlag \/ R_ShutdownQuit \/ R_BreakTest
    \/ R_Audio \/ R_Draw \/ R_Present \/ R_Sleep \/ R_Join

\* the steps audioCaptureThread takes of its own accord
CaptureStep ==
    \/ A_LoopTest \/ PW_NewLoop \/ PA_NewLoop \/ A_Publish \/ PW_Connect
    \/ PA_CtxWait \/ PA_CtxFail \/ PA_StreamConnect \/ A_RunReturns
    \/ PA_CleanupFlag \/ A_Unpublish \/ PW_Destroy \/ PW_Clear \/ PA_Release
    \/ A_Backoff

\* what the audio server and the user's signals do
BackendEvent == PW_StateChanged \/ PW_Process \/ PA_StateCallback \/ PA_ReadCallback

SysNext ==
    \/ R_LoopTest
    \/ R_Getch
    \/ R_ShutdownFlag
    \/ R_ShutdownQuit
    \/ R_BreakTest
    \/ R_Audio
    \/ R_Draw
    \/ R_Present
    \/ R_Sleep
    \/ R_Join
    \/ SignalHandler
    \/ A_LoopTest
    \/ PW_NewLoop
    \/ PA_NewLoop
    \/ A_Publish
    \/ PW_Connect
    \/ PA_CtxWait
    \/ PA_CtxFail
    \/ PA_StreamConnect
    \/ PW_StateChanged
    \/ PW_Process
    \/ PA_StateCallback
    \/ PA_ReadCallback
    \/ A_RunReturns
    \/ PA_CleanupFlag
    \/ A_Unpublish
    \/ PW_Destroy
    \/ PW_Clear
    \/ PA_Release
    \/ A_Backoff

SysSpec == SysInit /\ [][SysNext]_vars

\* ------------------------------------------------------------ claims C6, C7, C9, C10
\* the capture thread holds a session: its loop is running or being torn down
SessionOpenPcs == {"run", "cleanup_flag", "unpublish", "destroy", "release"}

\* the states in which the stream delivers audio
ActiveStates == {"streaming", "PA_STREAM_READY"}

\* the states in which the stream has failed or ended
FailedStates == {"error", "unconnected", "PA_STREAM_FAILED", "PA_STREAM_TERMINATED"}

\* C6: once termination is requested (running is false) the program goes on
\* to exit by the steps of its own two threads: until main has returned, one
\* of them always has a step to take, whatever state the capture thread was in.
C6_ShutdownCompletes ==
    ~running => (rpc \in {"done", "crashed"} \/ ENABLED (RenderStep \/ CaptureStep))

C9_FailureIsRetried ==
    (running /\ apc \in SessionOpenPcs /\ streamState \in FailedStates) =>
        ENABLED CaptureStep

\* C10: audio_stream_active is true only while the capture thread holds a
\* session whose stream is in its streaming / ready state; it is false
\* whenever the thread is creating a session, backing off or terminated.
C10_ActiveOnlyWhileStreaming ==
    /\ audio_stream_active => (apc \in SessionOpenPcs /\ streamState \in ActiveStates)
    /\ apc \in {"loop_test", "new_loop", "publish", "connect", "ctx_wait", "ctx_fail",
                "stream_connect", "clear", "backoff", "terminated"} => ~audio_stream_active

\* C10 witness: a session that was streaming has been closed after a failure
\* and the capture thread is backing off with the flag false, still running.
C10_Witness ==
    /\ apc = "backoff" /\ running /\ ~audio_stream_active /\ nw > 0

\* ------------------------------------------------------------ claims C11, C12
\* C11: a delivered chunk that holds fewer bytes than one full AudioFrame
\* (TOTAL_SAMPLES samples of 16 bits) is never handed to write: the delivery
\* leaves head, tail and every slot as they were.
C11_UndersizedDropped ==
    [][(ndeliv' = ndeliv + 1 /\ n_bytes' < 2 * TOTAL_SAMPLES) =>
            UNCHANGED <<m_head, m_tail, m_buffer>>]_vars

\* C11 witness: after a full frame had been written, a chunk one sample short
\* of a frame was delivered and the head is where the full frames left it.
C11_Witness ==
    /\ n_bytes = 2 * TOTAL_SAMPLES - 2
    /\ nw > 0
    /\ ndeliv > nw
    /\ m_head = nw % BUFFER_COUNT

\* C12: in a tick that finds the stream inactive the renderer's frame is zero
\* in both channels and read is not called (tail and the last return value stay);
\* in a tick that finds it active exactly one read is attempted, which either
\* returns false and leaves tail or returns true and advances tail by one,
\* and the tick goes on to draw without waiting.  Tail moves nowhere else.
C12_SilenceOrOneRead ==
    [][/\ (rpc = "audio" /\ rpc' # "audio") =>
             IF audio_stream_active
             THEN /\ rpc' = "draw"
                  /\ readRet' \in {"true", "false"}
                  /\ (readRet' = "true") <=> (m_tail' = NextIndex(m_tail))
                  /\ (readRet' = "false") => (m_tail' = m_tail)
             ELSE /\ rpc' = "draw"
                  /\ leftAudio' = ZeroChan
                  /\ rightAudio' = ZeroChan
                  /\ m_tail' = m_tail
                  /\ readRet' = readRet
       /\ (m_tail' # m_tail) => (rpc = "audio" /\ audio_stream_active)]_vars

\* C12 witness: a frame had been read, and a later tick found the stream
\* inactive and handed zeros to the draw function.
C12_Witness ==
    /\ rpc = "draw"
    /\ ~audio_stream_active
    /\ readRet = "true"
    /\ m_tail # 0
    /\ leftAudio = ZeroChan
    /\ rightAudio = ZeroChan

\* ------------------------------------------------------------ SchedSpec
\* The pacing of main's render loop: the deadline, the time a tick takes and
\* the sleep at its end.  The audio and the drawing are not looked at here.
CoreIdle == RbInit /\ HistInit /\ RaceIdle /\ SysStart /\ DelivInit /\ backend = "pipewire"

\* the time the body of one tick may take (key handling, read, draw, refresh)
WorkTimes == 0 .. 2 * frame_duration + 1

\* std::this_thread::sleep_for blocks for at least the duration asked for
SleepJitter == {0, 1}

\* while (running) { next_frame_time += frame_duration;
T_Top ==
    /\ tpc = "top"
    /\ now < MaxTime
    /\ next_frame_time' = next_frame_time + frame_duration
    /\ tpc' = "body"
    /\ UNCHANGED <<now, sleep_duration, work, late>>
    /\ UNCHANGED schedFrozen

\* getch ... refresh(): the body of the tick takes some time
T_Body ==
    /\ tpc = "body"
    /\ \E d \in WorkTimes :
          /\ now' = now + d
          /\ work' = d
    /\ tpc' = "sleep"
    /\ UNCHANGED <<next_frame_time, sleep_duration, late>>
    /\ UNCHANGED schedFrozen

SleepNeededAlways(d) == TRUE
\* if (sleep_duration.count() > 0)
SleepNeeded(d) == d > 0

\* auto sleep_duration = next_frame_time - steady_clock::now();
\* if (sleep_duration.count() > 0) sleep_for(sleep_duration);
T_Sleep ==
    /\ tpc = "sleep"
    /\ sleep_duration' = next_frame_time - now
    /\ late' = (now > next_frame_time)
    /\ IF SleepNeeded(next_frame_time - now)
       THEN \E j \in SleepJitter : now' = next_frame_time + j
       ELSE UNCHANGED now
    /\ tpc' = "top"
    /\ UNCHANGED <<next_frame_time, work>>
    /\ UNCHANGED schedFrozen

SchedInit0 == CoreIdle /\ SideIdle

SchedNext == T_Top \/ T_Body \/ T_Sleep

SchedSpec == SchedInit0 /\ [][SchedNext]_vars

\* ------------------------------------------------------------ claim C13
\* C13: the sleep is clamped to zero when a tick overruns and there are no
\* catch-up bursts: a tick that follows one which finished after its deadline,
\* and whose own body takes less than a frame, still sleeps before the next.
C13_NoCatchUpBurst ==
    [][(tpc = "sleep" /\ tpc' = "top" /\ late /\ work < frame_duration) =>
            (sleep_duration' > 0 /\ now' > now)]_vars

\* ------------------------------------------------------------ DrawSpec
\* The later draft of src/visualizer.cpp (lines 270-695): the draw functions
\* that keep state between ticks, called from main's render loop with the
\* frame of the tick.  A float is an integer number of 1 / LevelOne; a
\* product or quotient is cut to that grid.
Abs(x) == IF x < 0 THEN 0 - x ELSE x
Max(a, b) == IF a > b THEN a ELSE b
Min(a, b) == IF a < b THEN a ELSE b

\* the value an int16_t holds after an int is stored in it
ToInt16(x) == ((x + 32768) % 65536) - 32768

\* a quotient of floats cut towards zero
Quot(a, b) == IF a >= 0 THEN a \div b ELSE 0 - ((0 - a) \div b)

\* sqrtf on the grid
Isqrt(n) == CHOOSE r \in 0 .. LevelOne + 2 : r * r <= n /\ n < (r + 1) * (r + 1)

\* |sample| / scale as a level
Norm(sample, scale) == (Abs(sample) * LevelOne) \div scale

RECURSIVE SumSq(_, _, _, _)
\* the sum over i in lo .. hi - 1 of the squares of the normalised samples
SumSq(data, lo, hi, scale) ==
    IF lo >= hi THEN 0
    ELSE Norm(data[lo], scale) * Norm(data[lo], scale) + SumSq(data, lo + 1, hi, scale)

RECURSIVE PeakLoop(_, _, _)
\* for (i...) if (std::abs(data[i]) > peak) peak = std::abs(data[i]);  (int16_t peak)
PeakLoop(data, i, peak) ==
    IF i >= BUFFER_FRAMES THEN peak
    ELSE PeakLoop(data, i + 1,
                  IF Abs(data[i]) > peak THEN ToInt16(Abs(data[i])) ELSE peak)

\* VU_PEAK: static_cast<float>(peak) / 32767.0f
PeakLevel(data) == Quot(PeakLoop(data, 0, 0) * LevelOne, FULL_SCALE)

\* VU_RMS: sqrtf(sum_sq / BUFFER_FRAMES) / 32767.0f
RmsLevel(data) == Isqrt(SumSq(data, 0, BUFFER_FRAMES, FULL_SCALE) \div BUFFER_FRAMES)

\* left_current_level / right_current_level of drawVuMeter
VuSignal(data) == IF vuMeterMode = "VU_PEAK" THEN PeakLevel(data) ELSE RmsLevel(data)

\* drawBarGraph: rms of the bar's segment of the channel, samples / 32768.0f
BarSignal(data, bar) ==
    LET start_idx == (bar * BUFFER_FRAMES) \div num_bars
        end_idx   == Min(((bar + 1) * BUFFER_FRAMES) \div num_bars, BUFFER_FRAMES)
        count     == end_idx - start_idx
    IN  IF count > 0 THEN Isqrt(SumSq(data, start_idx, end_idx, BAR_SCALE) \div count) ELSE 0

\* mono_sample = (left[j] + right[j]) / 2.0f, for each j
MonoData == [j \in PairIdx |-> leftAudio[j] + rightAudio[j]]

\* drawEclipse / drawCustomShape: current_rms of point i out of n points
PointSignal(i, n) ==
    LET start_idx == (i * BUFFER_FRAMES) \div n
        end_idx   == Min(((i + 1) * BUFFER_FRAMES) \div n, BUFFER_FRAMES)
        count     == end_idx - start_idx
    IN  IF count > 0
        THEN Isqrt(SumSq(MonoData, start_idx, end_idx, 2 * FULL_SCALE) \div count)
        ELSE 0

\* a smoother that jumps to the signal instead of rising by rise_factor
SmoothSnap(level, signal, rise) ==
    IF signal > level THEN signal ELSE Max(0, level - decay__factor)
\* if (signal > level) level += (signal - level) * rise_factor;
\* else level = std::max(0.0f, level - decay__factor);
Smooth(level, signal, rise) ==
    IF signal > level
    THEN level + ((signal - level) * rise) \div 10
    ELSE Max(0, level - decay__factor)

\* a fade value that jumps to the level
FadedDecaySnap(currentAmplitude, lastDecay, decay_rate) == currentAmplitude
\* getFadedColorPairID: what it leaves in lastDecay
FadedDecay(currentAmplitude, lastDecay, decay_rate) ==
    IF currentAmplitude > lastDecay
    THEN Min(currentAmplitude, lastDecay + decay_rate)
    ELSE Max(currentAmplitude, lastDecay - decay_rate)

\* void drawVuMeter(..., bool audio_active)
drawVuMeter(audio_active) ==
    LET l0  == IF audio_active THEN leftLevel ELSE 0
        r0  == IF audio_active THEN rightLevel ELSE 0
        lc0 == IF audio_active THEN leftColorDecay ELSE 0
        rc0 == IF audio_active THEN rightColorDecay ELSE 0
        l1  == Smooth(l0, VuSignal(leftAudio), rise_factor)
        r1  == Smooth(r0, VuSignal(rightAudio), rise_factor)
    IN  /\ leftLevel' = l1
        /\ rightLevel' = r1
        /\ leftColorDecay' = FadedDecay(l1, lc0, color_decay_rate)
        /\ rightColorDecay' = FadedDecay(r1, rc0, color_decay_rate)
        /\ UNCHANGED <<leftPeakHeights, rightPeakHeights, barLeftColorDecay,
                       barRightColorDecay, pointAmplitudes, shapeAmplitudes>>

\* void drawBarGraph(..., bool audio_active)
drawBarGraph(audio_active) ==
    LET lh0 == [b \in BarIdx |-> IF audio_active THEN leftPeakHeights[b] ELSE 0]
        rh0 == [b \in BarIdx |-> IF audio_active THEN rightPeakHeights[b] ELSE 0]
        lc0 == [b \in BarIdx |-> IF audio_active THEN barLeftColorDecay[b] ELSE 0]
        rc0 == [b \in BarIdx |-> IF audio_active THEN barRightColorDecay[b] ELSE 0]
        lh1 == [b \in BarIdx |-> Smooth(lh0[b], BarSignal(leftAudio, b), rise_factor)]
        rh1 == [b \in BarIdx |-> Smooth(rh0[b], BarSignal(rightAudio, b), rise_factor)]
    IN  /\ leftPeakHeights' = lh1
        /\ rightPeakHeights' = rh1
        /\ barLeftColorDecay' = [b \in BarIdx |-> FadedDecay(lh1[b], lc0[b], color_decay_rate)]
        /\ barRightColorDecay' = [b \in BarIdx |-> FadedDecay(rh1[b], rc0[b], color_decay_rate)]
        /\ UNCHANGED <<leftLevel, rightLevel, leftColorDecay, rightColorDecay,
                       pointAmplitudes, shapeAmplitudes>>

\* drawEclipse: one smoothing pass, 0.25 / 0.5 / 0.25 over the ring of points
BlurPass(a) ==
    [i \in PointIdx |->
        LET prev_idx == IF i = 0 THEN num_points - 1 ELSE i - 1
            next_idx == IF i = num_points - 1 THEN 0 ELSE i + 1
        IN  (a[prev_idx] * 25 + a[i] * 50 + a[next_idx] * 25) \div 100]

\* void drawEclipse(...): no audio_active parameter, smoothing_passes = 2
drawEclipse ==
    LET a1 == [i \in PointIdx |->
                  Smooth(pointAmplitudes[i], PointSignal(i, num_points), shape_rise_factor)]
    IN  /\ pointAmplitudes' = BlurPass(BlurPass(a1))
        /\ UNCHANGED <<leftLevel, rightLevel, leftColorDecay, rightColorDecay,
                       leftPeakHeights, rightPeakHeights, barLeftColorDecay,
                       barRightColorDecay, shapeAmplitudes>>

\* void drawCustomShape(...), the EXPAND branch of a shape with two or more
\* vertices: no audio_active parameter
drawCustomShape ==
    /\ shapeAmplitudes' =
          [i \in ShapeIdx |->
              Smooth(shapeAmplitudes[i], PointSignal(i, total_points), shape_rise_factor)]
    /\ UNCHANGED <<leftLevel, rightLevel, leftColorDecay, rightColorDecay,
                   leftPeakHeights, rightPeakHeights, barLeftColorDecay,
                   barRightColorDecay, pointAmplitudes>>

\* a function over 0 .. n - 1 as a sequence
AsSeq(f, n) == [k \in 1 .. n |-> f[k - 1]]

\* the levels the displayed mode keeps, one per smoother
Levels ==
    CASE currentModeIdx = VU_METER  -> <<leftLevel, rightLevel>>
      [] currentModeIdx = BAR_GRAPH ->
            AsSeq(leftPeakHeights, num_bars) \o AsSeq(rightPeakHeights, num_bars)
      [] currentModeIdx = ECLIPSE   -> AsSeq(pointAmplitudes, num_points)
      [] OTHER                      -> AsSeq(shapeAmplitudes, total_points)

\* the colour-decay values the displayed mode keeps
ColorDecays ==
    CASE currentModeIdx = VU_METER  -> <<leftColorDecay, rightColorDecay>>
      [] currentModeIdx = BAR_GRAPH ->
            AsSeq(barLeftColorDecay, num_bars) \o AsSeq(barRightColorDecay, num_bars)
      [] OTHER                      -> <<>>

\* the signal the tick's frame feeds to each smoother of the displayed mode
Signals ==
    CASE currentModeIdx = VU_METER  -> <<VuSignal(leftAudio), VuSignal(rightAudio)>>
      [] currentModeIdx = BAR_GRAPH ->
            AsSeq([b \in BarIdx |-> BarSignal(leftAudio, b)], num_bars)
            \o AsSeq([b \in BarIdx |-> BarSignal(rightAudio, b)], num_bars)
      [] currentModeIdx = ECLIPSE   ->
            AsSeq([i \in PointIdx |-> PointSignal(i, num_points)], num_points)
      [] OTHER                      ->
            AsSeq([i \in ShapeIdx |-> PointSignal(i, total_points)], total_points)

\* the frames the capture side hands over in DrawSpec
Silent    == [l |-> ZeroChan, r |-> ZeroChan]
Impulse   == [l |-> [i \in PairIdx |-> IF i = 0 THEN FULL_SCALE ELSE 0], r |-> ZeroChan]
TestFrames == {Silent, Impulse}

\* the modes that keep levels between ticks; the custom shape is the first
\* one of the configuration, of type EXPAND
DrawModes == {VU_METER, BAR_GRAPH, ECLIPSE, NUM_BUILT_IN_MODES}

\* values visualizer_decay_factor can set: std::stof takes any float
DecaySteps == {0 - 1, 0, 1}

\* the capture thread's callbacks set and clear audio_stream_active at any time
D_Flag ==
    /\ audio_stream_active' = ~audio_stream_active
    /\ UNCHANGED <<leftAudio, rightAudio, rpc, drawVars>>
    /\ UNCHANGED drawFrozen

\* if (!audio_stream_active) { fill both with 0 } else { audioBuffer.read(...) }
\* read hands over a frame of the capture side or returns false
D_Audio ==
    /\ rpc = "audio"
    /\ IF StreamSilent(audio_stream_active)
       THEN leftAudio' = ZeroChan /\ rightAudio' = ZeroChan
       ELSE \/ \E f \in TestFrames : leftAudio' = f.l /\ rightAudio' = f.r
            \/ UNCHANGED <<leftAudio, rightAudio>>
    /\ rpc' = "draw"
    /\ UNCHANGED <<audio_stream_active, drawVars>>
    /\ UNCHANGED drawFrozen

\* the switch on currentModeIdx: the draw function of the displayed mode
D_Draw ==
    /\ rpc = "draw"
    /\ \A k \in DOMAIN Levels : Levels[k] <= MaxLevel
    /\ CASE currentModeIdx = VU_METER  -> drawVuMeter(audio_stream_active)
         [] currentModeIdx = BAR_GRAPH -> drawBarGraph(audio_stream_active)
         [] currentModeIdx = ECLIPSE   -> drawEclipse
         [] OTHER                      -> drawCustomShape
    /\ maxSeen' = [k \in DOMAIN Signals |->
                      IF k \in DOMAIN maxSeen THEN Max(maxSeen[k], Signals[k])
                      ELSE Signals[k]]
    /\ rpc' = "audio"
    /\ UNCHANGED <<leftAudio, rightAudio, audio_stream_active>>
    /\ UNCHANGED <<currentModeIdx, vuMeterMode, decay__factor>>
    /\ UNCHANGED drawFrozen

\* the render loop is at its audio step in some mode, with the decay step the
\* configuration set and the VU mode the arrow keys chose; nothing drawn yet
DrawInit ==
    /\ RbInit /\ HistInit /\ RaceIdle /\ DelivInit /\ SchedInit /\ SelIdle /\ CfgIdle /\ MoreIdle
    /\ backend = "pipewire"
    /\ running = TRUE
    /\ audio_stream_active \in BOOLEAN
    /\ rpc = "audio"
    /\ apc = "run"
    /\ global_loop = "loop"
    /\ quitPosted = FALSE
    /\ streamState = "streaming"
    /\ DrawZero
    /\ currentModeIdx \in DrawModes
    /\ vuMeterMode \in (IF currentModeIdx = VU_METER THEN {"VU_RMS", "VU_PEAK"} ELSE {"VU_RMS"})
    /\ decay__factor \in DecaySteps

DrawNext == D_Flag \/ D_Audio \/ D_Draw

DrawSpec == DrawInit /\ [][DrawNext]_vars

\* ------------------------------------------------------------ claims C14-C17
\* the rise factor of the smoothers of the displayed mode
ModeRise == IF currentModeIdx \in {VU_METER, BAR_GRAPH} THEN rise_factor ELSE shape_rise_factor

\* a step that runs the draw function of the displayed mode
DrawStep == rpc = "draw" /\ rpc' = "audio"

\* the frame of the tick is zero in both channels
SilentInput == leftAudio = ZeroChan /\ rightAudio = ZeroChan

\* C14: for every smoother of the level meter, the bars and the custom shape,
\* whatever decay step the configuration sets: on a tick (stream active) with
\* signal > level, level' = level + (signal - level) * riseFactor, otherwise
\* level' = max(0, level - decayStep); and after every tick each level is
\* at least 0 and at most the largest signal that smoother has been fed.
C14_SmootherBounded ==
    [][currentModeIdx # ECLIPSE =>
         /\ (DrawStep /\ audio_stream_active) =>
               \A k \in DOMAIN Levels :
                  Levels'[k] = IF Signals[k] > Levels[k]
                               THEN Levels[k] + ((Signals[k] - Levels[k]) * ModeRise) \div 10
                               ELSE Max(0, Levels[k] - decay__factor)
         /\ \A k \in DOMAIN Levels' :
               /\ Levels'[k] >= 0
               /\ Levels'[k] <= (IF k \in DOMAIN maxSeen' THEN maxSeen'[k] ELSE 0)]_vars

\* C15: with zero input while the stream is active a level falls by exactly
\* decayStep per tick until it is 0 and then stays 0, for every configured
\* decayStep: each silent tick takes it from level to max(0, level - decayStep),
\* and a level above 0 gets lower, so that it is 0 after
\* ceil(level0 / decayStep) ticks.
C15_SilenceDecaysToZero ==
    [][(DrawStep /\ audio_stream_active /\ SilentInput /\ currentModeIdx # ECLIPSE) =>
          \A k \in DOMAIN Levels :
             /\ Levels'[k] = Max(0, Levels[k] - decay__factor)
             /\ Levels[k] > 0 => Levels'[k] < Levels[k]]_vars

\* 0.6 and 0.025 on the grid
SixTenths == (6 * LevelOne) \div 10
DefaultDecay == LevelOne \div 40

\* C16 (as stated): in the level meter, with the stream active and the default
\* decay step 0.025, a frame whose only non-zero sample is one full-scale
\* sample takes the level of its channel from 0 to 0.6, and every silent tick
\* lowers a level by 0.025 (down to 0).
C16_ImpulseLevel ==
    [][(DrawStep /\ currentModeIdx = VU_METER /\ audio_stream_active
            /\ decay__factor = DefaultDecay) =>
          /\ (leftAudio = Impulse.l /\ rightAudio = Impulse.r /\ leftLevel = 0) =>
                leftLevel' = SixTenths
          /\ SilentInput => leftLevel' = Max(0, leftLevel - DefaultDecay)]_vars

\* C16 (amended): the same in the level meter's VU_PEAK mode (the default is
\* VU_RMS, where the level is taken from the root mean square of the frame).
C16_PeakImpulseLevel ==
    [][(DrawStep /\ currentModeIdx = VU_METER /\ audio_stream_active
            /\ decay__factor = DefaultDecay /\ vuMeterMode = "VU_PEAK") =>
          /\ (leftAudio = Impulse.l /\ rightAudio = Impulse.r /\ leftLevel = 0) =>
                (leftLevel' = SixTenths /\ rightLevel' = Max(0, rightLevel - DefaultDecay))
          /\ SilentInput => leftLevel' = Max(0, leftLevel - DefaultDecay)]_vars

\* C16 witness: in VU_PEAK mode the impulse has been drawn from level 0 and
\* two silent ticks have followed: the level is 0.6 - 2 * 0.025.
C16_Witness ==
    /\ currentModeIdx = VU_METER
    /\ vuMeterMode = "VU_PEAK"
    /\ decay__factor = DefaultDecay
    /\ audio_stream_active
    /\ rpc = "audio"
    /\ SilentInput
    /\ maxSeen = <<LevelOne, 0>>
    /\ leftLevel = SixTenths - 2 * DefaultDecay

\* C17: a tick that runs with the stream inactive leaves every level and every
\* colour-decay value of the displayed mode at zero.  Stated for the ticks in
\* which the frame was zero-filled, with the default decay step.
C17_InactiveResets ==
    [][(DrawStep /\ ~audio_stream_active /\ SilentInput /\ decay__factor = DefaultDecay) =>
          /\ \A k \in DOMAIN Levels' : Levels'[k] = 0
          /\ \A k \in DOMAIN ColorDecays' : ColorDecays'[k] = 0]_vars

\* ------------------------------------------------------------ ColorSpec
\* selectColorByAmplitude as a function of its two arguments: the ramp is one
\* initColors can build (pair ids 1 .. n), the amplitude any value on the grid
\* from below 0 to above 1.  Calls follow one another with new amplitudes, as
\* getFadedColorPairID makes them once per tick.

\* the ramp left alone (no clamp)
ClampNone(a) == a
\* std::max(0.0f, std::min(1.0f, amplitude_percent))
Clamp01(a) == Max(0, Min(LevelOne, a))

\* static_cast<int>(amplitude_percent * (colorPairIDs.size() - 1))
SelectIdx(a, ids) == (Clamp01(a) * (Len(ids) - 1)) \div LevelOne

\* the vectors initColors builds: pair ids 1 .. n
Ramps == {[i \in 1 .. n |-> i] : n \in 0 .. MaxRamp}

\* amplitudes from below 0 to above 1
Amplitudes == (LevelOne - MaxLevel) .. MaxLevel

\* int selectColorByAmplitude(float amplitude_percent, const std::vector<int>& colorPairIDs)
Sel_Call ==
    /\ spc = "call"
    /\ IF colorPairIDs = <<>>
       THEN colorIdx' = 0 - 1 /\ pairID' = 1
       ELSE LET idx == SelectIdx(amplitude_percent, colorPairIDs)
            IN  /\ colorIdx' = idx
                /\ pairID' \in (IF idx + 1 \in DOMAIN colorPairIDs
                                THEN {colorPairIDs[idx + 1]}
                                ELSE 0 .. MaxRamp)
    /\ spc' = "done"
    /\ UNCHANGED <<amplitude_percent, lastAmplitude, lastIdx>>
    /\ UNCHANGED <<coreVars, schedVars, drawVars, cfgVars, moreVars>>

\* the next call, with the amplitude of the next tick
Sel_Next ==
    /\ spc = "done"
    /\ \E a \in Amplitudes : amplitude_percent' = a
    /\ lastAmplitude' = amplitude_percent
    /\ lastIdx' = colorIdx
    /\ spc' = "call"
    /\ UNCHANGED <<colorIdx, pairID>>
    /\ UNCHANGED <<coreVars, schedVars, drawVars, cfgVars, moreVars>>

ColorInit ==
    /\ CoreIdle /\ SchedInit /\ DrawIdle /\ ParserIdle /\ MoreIdle
    /\ colorPairIDs \in Ramps
    /\ amplitude_percent \in Amplitudes
    /\ colorIdx = 0 - 1
    /\ pairID = 0
    /\ lastAmplitude = 0
    /\ lastIdx = 0 - 1
    /\ spc = "call"

ColorNext == Sel_Call \/ Sel_Next

ColorSpec == ColorInit /\ [][ColorNext]_vars

\* ------------------------------------------------------------ claim C18
\* C18: for every ramp of size M >= 1 and every amplitude, below 0 and above 1
\* included, the selected index is in 0 .. M - 1 and the pair returned is the
\* ramp's entry at it; amplitude 0 selects index 0, amplitude 1 selects
\* index M - 1, and of two calls the one with the larger amplitude never
\* selects the smaller index.
C18_RampIndexInBounds ==
    (spc = "done" /\ Len(colorPairIDs) >= 1) =>
        /\ colorIdx \in 0 .. Len(colorPairIDs) - 1
        /\ pairID = colorPairIDs[colorIdx + 1]
        /\ amplitude_percent = 0 => colorIdx = 0
        /\ amplitude_percent = LevelOne => colorIdx = Len(colorPairIDs) - 1
        /\ (lastIdx >= 0 /\ lastAmplitude <= amplitude_percent) => lastIdx <= colorIdx
        /\ (lastIdx >= 0 /\ lastAmplitude >= amplitude_percent) => lastIdx >= colorIdx

\* C18 witness: on the longest ramp a call with an amplitude below 0 selected
\* index 0 and the next one, with an amplitude above 1, the last index.
C18_Witness ==
    /\ spc = "done"
    /\ Len(colorPairIDs) = MaxRamp
    /\ lastAmplitude < 0
    /\ lastIdx = 0
    /\ amplitude_percent > LevelOne
    /\ colorIdx = MaxRamp - 1
    /\ pairID = MaxRamp

\* ------------------------------------------------------------ ConfigSpec
\* main loading the configuration: ConfigParser::parse, one line per step,
\* then getColorPairs and initColors.  A line is its key and the parts of its
\* value between the commas: "gradient_color = red,black" is
\* [key |-> "gradient_color", value |-> <<"red", "black">>]; the line
\* "new_visualizer tri {" has the value <<"tri", "{">>, the line "}" the key
\* "}", an empty line the key "" and a line of one word without '=' the key
\* "junk".

\* ConfigParser::parseColor: colorMap, with the curses colour numbers
colorMap == [black |-> 0, red |-> 1, green |-> COLOR_GREEN, yellow |-> 3,
             blue |-> 4, magenta |-> 5, cyan |-> 6, white |-> 7]
parseColor(colorStr) ==
    IF colorStr \in DOMAIN colorMap THEN colorMap[colorStr] ELSE 0 - 1

\* std::stof: the texts it converts (any other text throws)
stofOk(str) == str \in {"0", "1", "-0.025"}
\* std::stof: the value, in units of 1 / LevelOne
stof(str) ==
    CASE str = "0"      -> 0
      [] str = "1"      -> LevelOne
      [] str = "-0.025" -> 0 - (LevelOne \div 40)

\* the lines a configuration file is made of here
ConfigLines ==
    {[key |-> "gradient_color", value |-> v] :
        v \in {<<"red", "black">>, <<"cyan", "black">>, <<"red">>, <<"orange", "black">>}}
    \cup {[key |-> "visualizer_decay_factor", value |-> <<v>>] : v \in {"0", "-0.025", "abc"}}
    \cup {[key |-> "new_visualizer", value |-> v] : v \in {<<"tri", "{">>, <<"tri">>}}
    \cup {[key |-> "point", value |-> v] : v \in {<<"0", "1">>, <<"0", "x">>}}
    \cup {[key |-> k, value |-> <<>>] : k \in {"}", "", "junk"}}

\* the files of at most MaxLines lines
ConfigFiles == UNION {[1 .. n -> ConfigLines] : n \in 0 .. MaxLines}

\* line.find('{') != npos on a new_visualizer line
HasBrace(ln) == \E k \in DOMAIN ln.value : ln.value[k] = "{"

\* current_visualizer.polygons.back() is there and not empty
BackNotEmpty(polygons) == polygons # <<>> /\ polygons[Len(polygons)] # <<>>

\* current_visualizer.polygons.back().push_back({x, y}), after a push_back({})
\* on an empty polygons
PushPoint(polygons, pt) ==
    LET ps == IF polygons = <<>> THEN << <<>> >> ELSE polygons
    IN  [ps EXCEPT ![Len(ps)] = Append(@, pt)]

\* if (!file.is_open()) return false; main goes on whatever parse returns
P_Open ==
    /\ kpc = "parse"
    /\ IF file_open
       THEN kpc' = "getline" /\ UNCHANGED parseRet
       ELSE kpc' = "initColors" /\ parseRet' = "false"
    /\ UNCHANGED <<file_open, file, lineNum, parsing_visualizer, current_visualizer,
                   gradientColorPairs, customVisualizers, has_colors, colorPairIDs>>
    /\ UNCHANGED <<decay__factor, levelVars, coreVars, schedVars, selVars, moreVars>>

\* one turn of while (std::getline(file, line))
P_Line ==
    /\ kpc = "getline"
    /\ lineNum < Len(file)
    /\ lineNum' = lineNum + 1
    /\ LET ln == file[lineNum + 1]
       IN  IF ln.key = ""
           THEN /\ current_visualizer' =
                      IF parsing_visualizer /\ BackNotEmpty(current_visualizer)
                      THEN Append(current_visualizer, <<>>)
                      ELSE current_visualizer
                /\ UNCHANGED <<parsing_visualizer, gradientColorPairs,
                               customVisualizers, decay__factor>>
           ELSE IF parsing_visualizer
           THEN IF ln.key = "}"
                THEN LET polys == IF current_visualizer # <<>>
                                       /\ current_visualizer[Len(current_visualizer)] = <<>>
                                  THEN SubSeq(current_visualizer, 1, Len(current_visualizer) - 1)
                                  ELSE current_visualizer
                     IN  /\ current_visualizer' = polys
                         /\ customVisualizers' = Append(customVisualizers, polys)
                         /\ parsing_visualizer' = FALSE
                         /\ UNCHANGED <<gradientColorPairs, decay__factor>>
                ELSE /\ current_visualizer' =
                           IF /\ ln.key = "point"
                              /\ Len(ln.value) >= 2
                              /\ stofOk(ln.value[1])
                              /\ stofOk(ln.value[2])
                           THEN PushPoint(current_visualizer,
                                          <<stof(ln.value[1]), stof(ln.value[2])>>)
                           ELSE current_visualizer
                     /\ UNCHANGED <<parsing_visualizer, gradientColorPairs,
                                    customVisualizers, decay__factor>>
           ELSE IF ln.key = "new_visualizer"
           THEN /\ parsing_visualizer' = HasBrace(ln)
                /\ current_visualizer' = IF HasBrace(ln) THEN <<>> ELSE current_visualizer
                /\ UNCHANGED <<gradientColorPairs, customVisualizers, decay__factor>>
           ELSE /\ gradientColorPairs' =
                      IF /\ ln.key = "gradient_color"
                         /\ Len(ln.value) >= 2
                         /\ parseColor(ln.value[1]) # 0 - 1
                         /\ parseColor(ln.value[2]) # 0 - 1
                      THEN Append(gradientColorPairs,
                                  <<parseColor(ln.value[1]), parseColor(ln.value[2])>>)
                      ELSE gradientColorPairs
                /\ decay__factor' =
                      IF ln.key = "visualizer_decay_factor" /\ stofOk(ln.value[1])
                      THEN stof(ln.value[1])
                      ELSE decay__factor
                /\ UNCHANGED <<parsing_visualizer, current_visualizer, customVisualizers>>
    /\ UNCHANGED <<file_open, file, parseRet, has_colors, colorPairIDs, kpc>>
    /\ UNCHANGED <<levelVars, coreVars, schedVars, selVars, moreVars>>

\* after the loop: if (gradientColorPairs.empty()) one default pair; return true
P_End ==
    /\ kpc = "getline"
    /\ lineNum = Len(file)
    /\ gradientColorPairs' =
          IF gradientColorPairs = <<>> THEN << <<COLOR_GREEN, 0 - 1>> >>
          ELSE gradientColorPairs
    /\ parseRet' = "true"
    /\ kpc' = "initColors"
    /\ UNCHANGED <<file_open, file, lineNum, parsing_visualizer, current_visualizer,
                   customVisualizers, has_colors, colorPairIDs>>
    /\ UNCHANGED <<decay__factor, levelVars, coreVars, schedVars, selVars, moreVars>>

\* auto colorConfig = parser.getColorPairs(); ...
\* if (has_colors()) edgePairID = initColors(colorConfig);
M_InitColors ==
    /\ kpc = "initColors"
    /\ colorPairIDs' =
          IF has_colors THEN [i \in 1 .. Len(gradientColorPairs) |-> i]
          ELSE colorPairIDs
    /\ kpc' = "done"
    /\ UNCHANGED <<file_open, file, lineNum, parsing_visualizer, current_visualizer,
                   gradientColorPairs, customVisualizers, parseRet, has_colors>>
    /\ UNCHANGED <<decay__factor, levelVars, coreVars, schedVars, selVars, moreVars>>

\* main is about to call parser.parse(): the file is missing or unreadable,
\* or it is there with some lines; the terminal has colours or not
ConfigInit ==
    /\ CoreIdle /\ SchedInit /\ DrawIdle /\ SelIdle /\ MoreIdle
    /\ file_open \in BOOLEAN
    /\ file \in (IF file_open THEN ConfigFiles ELSE {<<>>})
    /\ lineNum = 0
    /\ parsing_visualizer = FALSE
    /\ current_visualizer = <<>>
    /\ gradientColorPairs = <<>>
    /\ customVisualizers = <<>>
    /\ parseRet = "none"
    /\ has_colors \in BOOLEAN
    /\ colorPairIDs = <<>>
    /\ kpc = "parse"

ConfigNext == P_Open \/ P_Line \/ P_End \/ M_InitColors

ConfigSpec == ConfigInit /\ [][ConfigNext]_vars

\* ------------------------------------------------------------ claim C19
\* C19: after the configuration has been loaded on a terminal with colours,
\* whatever state the file was in (missing or unreadable, empty, every colour
\* entry malformed, or valid), colorPairIDs has at least one entry.
C19_RampNeverEmpty ==
    (kpc = "done" /\ has_colors) => Len(colorPairIDs) >= 1

\* ------------------------------------------------------------ claim C20
\* a well-formed colour entry: gradient_color = fg,bg with two known colours
ColorEntryOk(ln) ==
    /\ ln.key = "gradient_color"
    /\ Len(ln.value) >= 2
    /\ parseColor(ln.value[1]) # 0 - 1
    /\ parseColor(ln.value[2]) # 0 - 1

\* a well-formed decay entry
DecayEntryOk(ln) == ln.key = "visualizer_decay_factor" /\ stofOk(ln.value[1])

\* line i opens a shape block that a later "}" closes
ClosedBlockAt(f, i) ==
    /\ f[i].key = "new_visualizer"
    /\ HasBrace(f[i])
    /\ \E j \in i + 1 .. Len(f) : f[j].key = "}"

\* the line of the "}" that closes the block opened in line i
BlockEnd(f, i) ==
    CHOOSE j \in i + 1 .. Len(f) :
        f[j].key = "}" /\ \A k \in i + 1 .. j - 1 : f[k].key # "}"

\* the colour pairs of the well-formed colour entries of f from line i on, read
\* entry by entry: a shape block with its "}" is one entry, any other line is
\* an entry of its own
RECURSIVE EntryColors(_, _)
EntryColors(f, i) ==
    IF i > Len(f) THEN <<>>
    ELSE IF ClosedBlockAt(f, i) THEN EntryColors(f, BlockEnd(f, i) + 1)
    ELSE IF ColorEntryOk(f[i])
         THEN << <<parseColor(f[i].value[1]), parseColor(f[i].value[2])>> >>
              \o EntryColors(f, i + 1)
         ELSE EntryColors(f, i + 1)

\* the decay step after the well-formed decay entries of f from line i on
RECURSIVE EntryDecay(_, _, _)
EntryDecay(f, i, d) ==
    IF i > Len(f) THEN d
    ELSE IF ClosedBlockAt(f, i) THEN EntryDecay(f, BlockEnd(f, i) + 1, d)
    ELSE IF DecayEntryOk(f[i]) THEN EntryDecay(f, i + 1, stof(f[i].value[1]))
    ELSE EntryDecay(f, i + 1, d)

\* C20: when parse has read a file to its end, every well-formed colour and
\* decay entry of the file has taken effect, whatever malformed entries stand
\* before or after it (each is skipped on its own), in the order of the file;
\* and if no colour entry is well-formed, the ramp is exactly the one default
\* pair.
C20_MalformedSkippedAlone ==
    (kpc \in {"initColors", "done"} /\ parseRet = "true") =>
        /\ gradientColorPairs =
              IF EntryColors(file, 1) = <<>> THEN << <<COLOR_GREEN, 0 - 1>> >>
              ELSE EntryColors(file, 1)
        /\ decay__factor = EntryDecay(file, 1, LevelOne \div 40)

\* ------------------------------------------------------------ AnalyzerSpec
\* The signal analysis of the draw functions as a function of the frame: the
\* peak and RMS of drawVuMeter, the bar RMS of drawBarGraph and the point RMS
\* of drawEclipse, for frames made of the extreme and some ordinary samples.

\* the samples the frames are made of: int16_t from -32768 to 32767
AnaSamples == {0 - 32768, 0 - 32767, 0 - 16384, 0, 1, 16384, FULL_SCALE}

\* one channel of a frame
AnaChans == [PairIdx -> AnaSamples]

\* the analysis at the head of drawVuMeter (both modes), drawBarGraph and drawEclipse
A_Analyze ==
    /\ anpc = "analyze"
    /\ left_peak' = PeakLoop(leftAudio, 0, 0)
    /\ right_peak' = PeakLoop(rightAudio, 0, 0)
    /\ peak_level' = <<PeakLevel(leftAudio), PeakLevel(rightAudio)>>
    /\ rms_level' = <<RmsLevel(leftAudio), RmsLevel(rightAudio)>>
    /\ bar_rms' = AsSeq([b \in BarIdx |-> BarSignal(leftAudio, b)], num_bars)
                  \o AsSeq([b \in BarIdx |-> BarSignal(rightAudio, b)], num_bars)
    /\ point_rms' = AsSeq([i \in PointIdx |-> PointSignal(i, num_points)], num_points)
    /\ anpc' = "done"
    /\ UNCHANGED <<coreVars, schedVars, drawVars, selVars, cfgVars, geomVars, winVars, galaxyVars, sizeVars, sigVars, fadeVars>>

\* main has put some frame into leftAudio / rightAudio and calls a draw function
AnalyzerInit ==
    /\ m_head = 0
    /\ m_tail = 0
    /\ m_buffer = [s \in SlotIdx |-> ZeroFrame]
    /\ leftAudio \in AnaChans
    /\ rightAudio \in AnaChans
    /\ readRet = "none"
    /\ nw = 0
    /\ HistInit /\ RaceIdle /\ SysStart /\ DelivInit /\ backend = "pipewire"
    /\ SchedInit /\ DrawIdle /\ SelIdle /\ CfgIdle /\ GeomIdle /\ WinIdle /\ GalaxyIdle /\ SizeIdle /\ SigIdle /\ FadeIdle
    /\ left_peak = 0
    /\ right_peak = 0
    /\ peak_level = <<0, 0>>
    /\ rms_level = <<0, 0>>
    /\ bar_rms = <<>>
    /\ point_rms = <<>>
    /\ anpc = "analyze"

AnalyzerNext == A_Analyze

AnalyzerSpec == AnalyzerInit /\ [][AnalyzerNext]_vars

\* ------------------------------------------------------------ claim C21
\* the largest |sample| of a channel
MaxAbs(data) ==
    CHOOSE m \in {Abs(data[i]) : i \in PairIdx} :
        \A i \in PairIdx : Abs(data[i]) <= m

\* C21: for every frame of 16-bit samples, -32768 included, the 16-bit running
\* maximum ends as the largest |sample| of the channel (it is never negative
\* and never below the |sample| of a sample seen), and the peak level is that
\* maximum divided by 32767.
C21_PeakIsMaxAbs ==
    anpc = "done" =>
        /\ left_peak = MaxAbs(leftAudio)
        /\ right_peak = MaxAbs(rightAudio)
        /\ peak_level = <<Quot(MaxAbs(leftAudio) * LevelOne, FULL_SCALE),
                          Quot(MaxAbs(rightAudio) * LevelOne, FULL_SCALE)>>

\* ------------------------------------------------------------ claim C22
\* a channel in which every sample is 32767
FullChan == [i \in PairIdx |-> FULL_SCALE]

\* segment k of n holds at least one sample
SegNotEmpty(k, n) ==
    Min(((k + 1) * BUFFER_FRAMES) \div n, BUFFER_FRAMES) > (k * BUFFER_FRAMES) \div n

Cross(a, b) == a[1] * b[2] - a[2] * b[1]
Dot(a, b)   == a[1] * b[1] + a[2] * b[2]

\* u unrestricted: every crossing of the segment's line counts
OnSegmentAny(un, det) == TRUE
\* u >= 0 && u <= 1, for u = un / det
OnSegment(un, det) == un * det >= 0 /\ un * det <= det * det

\* float getIntersectionDist(ray_x, ray_y, p1x, p1y, p2x, p2y)
getIntersectionDist(r, a, b) ==
    LET seg == <<b[1] - a[1], b[2] - a[2]>>
        det == Cross(r, seg)
        tn  == Cross(a, seg)
        un  == Cross(a, r)
    IN  IF det = 0 THEN NoHit
        ELSE IF tn * det > 0 /\ OnSegment(un, det)
             THEN [hit |-> TRUE, num |-> Abs(tn), den |-> Abs(det)]
             ELSE NoHit

\* dist < min_dist for two fractions
FracLess(x, y) == x.num * y.den < y.num * x.den

\* the edges of a shape in the order of the loops: polygon[v], polygon[(v + 1) % size]
EdgesOf(polys) ==
    LET RECURSIVE Cat(_)
        Cat(k) == IF k > Len(polys) THEN <<>>
                  ELSE [v \in 1 .. Len(polys[k]) |->
                            <<polys[k][v], polys[k][(v % Len(polys[k])) + 1]>>]
                       \o Cat(k + 1)
    IN  Cat(1)

RECURSIVE MinDistLoop(_, _, _, _)
\* if (dist > 0 && (min_dist < 0 || dist < min_dist)) min_dist = dist;
MinDistLoop(r, edges, k, md) ==
    IF k > Len(edges) THEN md
    ELSE LET d == getIntersectionDist(r, edges[k][1], edges[k][2])
         IN  MinDistLoop(r, edges, k + 1,
                         IF d.num > 0 /\ (md.num < 0 \/ FracLess(d, md)) THEN d ELSE md)

Coords == (0 - MaxCoord) .. MaxCoord
Points == Coords \X Coords
\* directions of a ray
Rays == {r \in {0 - 1, 0, 1} \X {0 - 1, 0, 1} : r # <<0, 0>>}

\* the shapes of the configuration: the unit square of the spec, a square
\* inside a larger one, a triangle off the origin, a loop of one point
UnitSquare == <<<<1, 1>>, <<1, 0 - 1>>, <<0 - 1, 0 - 1>>, <<0 - 1, 1>>>>
Shapes ==
    { <<UnitSquare>>,
      <<[v \in 1 .. 4 |-> <<MaxCoord * UnitSquare[v][1], MaxCoord * UnitSquare[v][2]>>],
        UnitSquare>>,
      << <<<<1, 0>>, <<MaxCoord, 1>>, <<MaxCoord, 0 - 1>>>> >>,
      << <<<<1, 1>>>> >> }

\* one ray of drawCustomShape (DISTORT): the call for one edge and the loop
\* over every edge of every loop of the shape
G_Cast ==
    /\ gpc = "call"
    /\ dist' = getIntersectionDist(ray, p1, p2)
    /\ min_dist' = MinDistLoop(ray, EdgesOf(visualizer_polygons), 1, NoHit)
    /\ gpc' = "done"
    /\ UNCHANGED <<ray, p1, p2, visualizer_polygons>>
    /\ UNCHANGED <<coreVars, schedVars, drawVars, selVars, cfgVars, anaVars, winVars, galaxyVars, sizeVars, sigVars, fadeVars>>

GeomInit ==
    /\ CoreIdle /\ SchedInit /\ DrawIdle /\ SelIdle /\ CfgIdle /\ AnaIdle /\ WinIdle /\ GalaxyIdle /\ SizeIdle /\ SigIdle /\ FadeIdle
    /\ ray \in Rays
    /\ p1 \in Points
    /\ p2 \in Points
    /\ dist = NoHit
    /\ visualizer_polygons \in Shapes
    /\ min_dist = NoHit
    /\ gpc = "call"

GeomNext == G_Cast

GeomSpec == GeomInit /\ [][GeomNext]_vars

\* ------------------------------------------------------------ claim C23
\* the ray from the origin along r meets the segment a-b in one point at a
\* distance above 0: a and b are not on the same side of the ray's line, the
\* segment is not parallel to it, and the meeting point is ahead of the origin
Crosses(r, a, b) ==
    LET side1 == Cross(r, a)
        side2 == Cross(r, b)
        d     == side1 - side2
        seg   == <<b[1] - a[1], b[2] - a[2]>>
    IN  /\ d # 0
        /\ side1 * side2 <= 0
        /\ (Dot(r, a) * d + side1 * Dot(r, seg)) * d > 0

\* the point at distance x along r lies on the segment a-b
PointOnSegment(r, x, a, b) ==
    LET seg == <<b[1] - a[1], b[2] - a[2]>>
        rel == <<x.num * r[1] - x.den * a[1], x.num * r[2] - x.den * a[2]>>
    IN  /\ Cross(rel, seg) = 0
        /\ Dot(rel, seg) >= 0
        /\ Dot(rel, seg) <= x.den * Dot(seg, seg)

\* C23: getIntersectionDist returns a distance t > 0 exactly when the ray meets
\* the segment (the point at t along the ray is then on the segment), and -1
\* otherwise, parallel ray and segment included; the ray (1,0) against the
\* segment (1,1)-(1,-1) gives 1.0; and the loop of distort mode ends with the
\* smallest positive distance over every edge of every loop of the shape, or
\* with -1 when no edge is met.
C23_RaySegment ==
    gpc = "done" =>
        /\ dist.hit <=> Crosses(ray, p1, p2)
        /\ dist.hit => (dist.num > 0 /\ dist.den > 0 /\ PointOnSegment(ray, dist, p1, p2))
        /\ ~dist.hit => dist = NoHit
        /\ (ray = <<1, 0>> /\ p1 = <<1, 1>> /\ p2 = <<1, 0 - 1>>) =>
              (dist.hit /\ dist.num = dist.den)
        /\ LET edges == EdgesOf(visualizer_polygons)
               met   == {k \in DOMAIN edges : Crosses(ray, edges[k][1], edges[k][2])}
           IN  /\ min_dist.hit <=> met # {}
               /\ ~min_dist.hit => min_dist = NoHit
               /\ min_dist.hit =>
                     /\ \E k \in met : PointOnSegment(ray, min_dist, edges[k][1], edges[k][2])
                     /\ \A k \in met :
                           ~FracLess(getIntersectionDist(ray, edges[k][1], edges[k][2]), min_dist)

\* C23 witness: the ray (1,0) has been cast against the segment (1,1)-(1,-1)
\* and against the square inside the larger square; both give 1.0, the nearer
\* of the two squares.
C23_Witness ==
    /\ gpc = "done"
    /\ ray = <<1, 0>> /\ p1 = <<1, 1>> /\ p2 = <<1, 0 - 1>>
    /\ dist.hit /\ dist.num = dist.den
    /\ Len(visualizer_polygons) = 2
    /\ min_dist.hit /\ min_dist.num = min_dist.den

\* ------------------------------------------------------------ GalaxySpec
\* The particle mode: main's audio step and drawGalaxy, tick after tick, in a
\* window of some size.  A particle is its cell, its velocity and its life in
\* whole units; the random draws of a spawn are any of the values named here.

\* overall_amplitude: the RMS of the mono frame, clamped to [0, 1]
MonoAmplitude ==
    Max(0, Min(LevelOne,
               Isqrt(SumSq(MonoData, 0, BUFFER_FRAMES, 2 * FULL_SCALE) \div BUFFER_FRAMES)))

\* the frames of GalaxySpec: silence, a quiet frame (energy below the
\* threshold), one channel at full scale, both at full scale
GalaxyFrames ==
    { [l |-> ZeroChan, r |-> ZeroChan],
      [l |-> [i \in PairIdx |-> 1638], r |-> [i \in PairIdx |-> 1638]],
      [l |-> [i \in PairIdx |-> FULL_SCALE], r |-> ZeroChan],
      [l |-> [i \in PairIdx |-> FULL_SCALE], r |-> [i \in PairIdx |-> FULL_SCALE]] }

\* a particle as the spawn loop makes it: x = width / 2 + (dis_angle - 1) * 5,
\* y = height * 0.9, vx to either side, vy = -|sin| * speed (up or level),
\* life = dis_life
NewParticles ==
    [x : {vis_width \div 2 + d : d \in {0 - 1, 0, 1}},
     y : {(9 * vis_height) \div 10},
     vx : {0 - 1, 1},
     vy : {0 - 1, 0},
     life : 2 .. MaxLife]

\* every particle is kept, dead or outside the window or not
KeepAll(q, w, h) == TRUE
\* if (p.life > 0.0f && p.x >= 0 && p.x < width && p.y >= 0 && p.y < height)
Keep(q, w, h) == q.life > 0 /\ q.x >= 0 /\ q.x < w /\ q.y >= 0 /\ q.y < h

\* a particle that moves and does not age
MoveNoAge(q) == [x |-> q.x + q.vx, y |-> q.y + q.vy, vx |-> q.vx, vy |-> q.vy + 1,
                 life |-> q.life]
\* p.x += p.vx; p.y += p.vy; p.vy += 0.05f; p.life -= particle_life_decay_rate
Move(q) == [x |-> q.x + q.vx, y |-> q.y + q.vy, vx |-> q.vx, vy |-> q.vy + 1,
            life |-> q.life - 1]

\* the spawn loop: for (i = 0; i < particles_to_spawn && particles.size() < max_particles; ++i)
SpawnCount(amp, size, audio_active) ==
    IF audio_active /\ amp > spawn_threshold
    THEN Min((MaxSpawn * amp) \div LevelOne, Max(0, max_particles - size))
    ELSE 0

\* main: zero-fill if the stream is inactive, else read; the flag is read again
\* for the draw call and may have changed
X_Audio ==
    /\ xpc = "audio"
    /\ \E f \in GalaxyFrames :
          IF StreamSilent(audio_stream_active)
          THEN leftAudio' = ZeroChan /\ rightAudio' = ZeroChan
          ELSE leftAudio' = f.l /\ rightAudio' = f.r
    /\ \E a \in BOOLEAN : audio_stream_active' = a
    /\ xpc' = "draw"
    /\ UNCHANGED <<particles, overall_amplitude, spawned, spawn_active, winVars>>
    /\ UNCHANGED <<coreRest, schedVars, drawVars, selVars, cfgVars, anaVars, geomVars, sizeVars, sigVars, fadeVars>>

\* void drawGalaxy(..., bool audio_active)
X_Draw ==
    /\ xpc = "draw"
    /\ LET amp == MonoAmplitude
           n   == SpawnCount(amp, Len(particles), audio_stream_active)
       IN  /\ overall_amplitude' = amp
           /\ spawned' = n
           /\ spawn_active' = audio_stream_active
           /\ \E new \in [1 .. n -> NewParticles] :
                 LET all   == particles \o new
                     moved == [k \in 1 .. Len(all) |-> Move(all[k])]
                 IN  particles' =
                        SelectSeq(moved, LAMBDA q : Keep(q, vis_width, vis_height))
    /\ xpc' = "audio"
    /\ UNCHANGED <<leftAudio, rightAudio, audio_stream_active, winVars>>
    /\ UNCHANGED <<coreRest, schedVars, drawVars, selVars, cfgVars, anaVars, geomVars, sizeVars, sigVars, fadeVars>>

\* the window has some size, from no cell at all to MaxWidth x MaxWidth
GalaxyInit ==
    /\ RbInit /\ HistInit /\ RaceIdle /\ DelivInit
    /\ backend = "pipewire"
    /\ running = TRUE
    /\ audio_stream_active \in BOOLEAN
    /\ rpc = "audio"
    /\ apc = "run"
    /\ global_loop = "loop"
    /\ quitPosted = FALSE
    /\ streamState = "streaming"
    /\ SchedInit /\ DrawIdle /\ SelIdle /\ CfgIdle /\ AnaIdle /\ GeomIdle /\ SizeIdle /\ SigIdle /\ FadeIdle
    /\ vis_width \in 0 .. MaxWidth
    /\ vis_height \in {0, 1, MaxWidth}
    /\ particles = <<>>
    /\ overall_amplitude = 0
    /\ spawned = 0
    /\ spawn_active = FALSE
    /\ xpc = "audio"

GalaxyNext == X_Audio \/ X_Draw

GalaxySpec == GalaxyInit /\ [][GalaxyNext]_vars

\* ------------------------------------------------------------ claim C24
\* C24: after every particle-mode tick there are at most max_particles
\* particles, each with life > 0 and a position inside the window; particles
\* were created in the tick only if the stream was active and the mono energy
\* above the threshold, and at most floor(rate * energy) of them.
C24_ParticlesBounded ==
    xpc = "audio" =>
        /\ Len(particles) <= max_particles
        /\ \A k \in DOMAIN particles :
              /\ particles[k].life > 0
              /\ particles[k].x >= 0 /\ particles[k].x < vis_width
              /\ particles[k].y >= 0 /\ particles[k].y < vis_height
        /\ spawned > 0 => (spawn_active /\ overall_amplitude > spawn_threshold)
        /\ spawned <= (MaxSpawn * overall_amplitude) \div LevelOne

\* C24 witness: a tick at full energy found one particle alive, created the
\* one more the cap allows, and both are alive inside the window after it.
C24_Witness ==
    /\ xpc = "audio"
    /\ overall_amplitude = LevelOne
    /\ spawn_active
    /\ spawned = 1
    /\ Len(particles) = max_particles

\* ------------------------------------------------------------ SizeSpec
\* drawOscilloscope and drawBarGraph as functions of the window's size: which
\* samples a call reads, which cells it writes and whether it divides by zero.

\* static_cast<int> of a NaN is undefined: INT_MIN on x86, 0 on other builds
NaNToInt == {0 - 2147483647 - 1, 0}

\* drawOscilloscope, column x, for each value idx1 the cast of sample_pos can
\* have: the samples read and the two cells written
OscColumn(x, idx1) ==
    LET channelHeight == vis_height \div 2
        den   == vis_width - 1
        idx2  == Min(idx1 + 1, BUFFER_FRAMES - 1)
        rem   == IF den = 0 THEN 0 ELSE (x * (BUFFER_FRAMES - 1)) % den
        inRng == idx1 \in PairIdx /\ idx2 \in PairIdx
        mix(data) == IF inRng /\ den # 0
                     THEN ToInt16(Quot(data[idx1] * (den - rem) + data[idx2] * rem, den))
                     ELSE 0
        row(data) == Max(0, Min(channelHeight - 1,
                                channelHeight \div 2
                                - Quot(mix(data) * channelHeight, 2 * BAR_SCALE)))
    IN  [idx |-> {idx1, idx2},
         cell |-> {<<row(leftAudio), x>>, <<row(rightAudio) + channelHeight, x>>}]

\* the values of sample_idx1 in column x: static_cast<int>(x / (width - 1) * (BUFFER_FRAMES - 1))
OscIdx1(x) ==
    IF vis_width - 1 = 0 THEN NaNToInt
    ELSE {(x * (BUFFER_FRAMES - 1)) \div (vis_width - 1)}

\* void drawOscilloscope(...): for (int x = 0; x < width; x++)
Z_Oscilloscope ==
    /\ zpc = "call"
    /\ currentModeIdx = OSCILLOSCOPE
    /\ \E pick \in [0 .. vis_width - 1 -> NaNToInt \cup PairIdx] :
          /\ \A x \in 0 .. vis_width - 1 : pick[x] \in OscIdx1(x)
          /\ idx_read' = UNION {OscColumn(x, pick[x]).idx : x \in 0 .. vis_width - 1}
          /\ cells' = UNION {OscColumn(x, pick[x]).cell : x \in 0 .. vis_width - 1}
    /\ div_zero' = (vis_width >= 1 /\ vis_width - 1 = 0)
    /\ zpc' = "done"
    /\ UNCHANGED <<coreVars, schedVars, drawVars, selVars, cfgVars, anaVars, geomVars,
                   winVars, galaxyVars, sigVars, fadeVars>>

\* drawBarGraph, process_channel: the cells of the bars from bar on, the
\* first of them starting in column current_x
RECURSIVE BarCells(_, _, _, _, _)
BarCells(bar, current_x, heights, y_offset, is_top_channel) ==
    IF bar >= num_bars THEN {}
    ELSE LET total_bar_width == Max(0, vis_width - (num_bars - 1))
             base_bar_width  == total_bar_width \div num_bars
             remainder       == total_bar_width % num_bars
             channelHeight   == vis_height \div 2
             bar_height == Min(channelHeight, (heights[bar] * channelHeight * 3) \div (2 * LevelOne))
             bar_width0 == base_bar_width + (IF bar < remainder THEN 1 ELSE 0)
             drawn      == bar_height > 0 /\ bar_width0 > 0 /\ current_x < vis_width
             bar_width  == IF drawn THEN Min(bar_width0, vis_width - current_x) ELSE bar_width0
             here == IF drawn
                     THEN {<<(IF is_top_channel THEN y_offset + channelHeight - 1 - y
                              ELSE y_offset + y), current_x + col>> :
                              y \in 0 .. bar_height - 1, col \in 0 .. bar_width - 1}
                     ELSE {}
         IN  here \cup BarCells(bar + 1,
                                current_x + bar_width + (IF bar < num_bars - 1 THEN 1 ELSE 0),
                                heights, y_offset, is_top_channel)

\* the sample indexes process_channel reads: for (i = start_idx; i < end_idx && i < BUFFER_FRAMES; i++)
BarReads ==
    UNION {{i \in (bar * BUFFER_FRAMES) \div num_bars ..
                  ((bar + 1) * BUFFER_FRAMES) \div num_bars - 1 : i < BUFFER_FRAMES} :
           bar \in BarIdx}

\* void drawBarGraph(...), with the stream active
Z_BarGraph ==
    /\ zpc = "call"
    /\ currentModeIdx = BAR_GRAPH
    /\ LET lh == [b \in BarIdx |-> Smooth(leftPeakHeights[b], BarSignal(leftAudio, b), rise_factor)]
           rh == [b \in BarIdx |-> Smooth(rightPeakHeights[b], BarSignal(rightAudio, b), rise_factor)]
       IN  cells' = BarCells(0, 0, lh, 0, TRUE)
                    \cup BarCells(0, 0, rh, vis_height \div 2, FALSE)
    /\ idx_read' = BarReads
    /\ div_zero' = FALSE
    /\ zpc' = "done"
    /\ UNCHANGED <<coreVars, schedVars, drawVars, selVars, cfgVars, anaVars, geomVars,
                   winVars, galaxyVars, sigVars, fadeVars>>

\* the channels of the frames of SizeSpec
SizeChans == {ZeroChan, FullChan, [i \in PairIdx |-> IF i = 0 THEN 0 - 32768 ELSE FULL_SCALE]}

\* main calls the draw function of the mode with a frame, in a window of some size
SizeInit ==
    /\ m_head = 0
    /\ m_tail = 0
    /\ m_buffer = [s \in SlotIdx |-> ZeroFrame]
    /\ leftAudio \in SizeChans
    /\ rightAudio \in SizeChans
    /\ readRet = "none"
    /\ nw = 0
    /\ HistInit /\ RaceIdle /\ SysStart /\ DelivInit /\ backend = "pipewire"
    /\ SchedInit /\ SelIdle /\ CfgIdle /\ AnaIdle /\ GeomIdle /\ GalaxyIdle /\ SigIdle /\ FadeIdle
    /\ DrawZero
    /\ currentModeIdx \in {OSCILLOSCOPE, BAR_GRAPH}
    /\ vuMeterMode = "VU_RMS"
    /\ decay__factor = 1
    /\ vis_width \in 0 .. MaxWidth
    /\ vis_height \in 0 .. MaxWidth
    /\ idx_read = {}
    /\ cells = {}
    /\ div_zero = FALSE
    /\ zpc = "call"

SizeNext == Z_Oscilloscope \/ Z_BarGraph

SizeSpec == SizeInit /\ [][SizeNext]_vars

\* ------------------------------------------------------------ claim C25
\* C25: in a window of at least one row and one column, a width or height of
\* 1 included, a draw call divides by zero nowhere, reads only samples
\* 0 .. BUFFER_FRAMES - 1 and writes only cells of the window.
C25_SmallWindowSafe ==
    (zpc = "done" /\ vis_width >= 1 /\ vis_height >= 1) =>
        /\ ~div_zero
        /\ idx_read \subseteq PairIdx
        /\ cells \subseteq (0 .. vis_height - 1) \X (0 .. vis_width - 1)

\* ------------------------------------------------------------ claim C26
\* C26: once the file is parsed, every vertex loop of every custom shape of
\* customVisualizers has at least 3 vertices, whatever lines its block held.
C26_LoopsHaveThreeVertices ==
    kpc = "done" =>
        \A v \in 1 .. Len(customVisualizers) :
            \A l \in 1 .. Len(customVisualizers[v]) :
                Len(customVisualizers[v][l]) >= 3

\* ------------------------------------------------------------ claim C27
\* C27: on a tick of main's loop where the stream is active and read finds no
\* new frame, the draw call is not given a frame capture wrote: such a frame
\* would be one that the tick which read it has rendered already.
C27_NoFrameRenderedTwice ==
    [][(rpc = "audio" /\ rpc' = "draw" /\ audio_stream_active /\ readRet' = "false") =>
           ~(\E n \in 1 .. nw : GotFrame(n)')]_vars

\* ------------------------------------------------------------ claim C28
\* C28: when shutdown_program is about to test and dereference the published
\* loop handle, the handle does not point to a loop the capture thread has
\* freed.
C28_QuitNeverSeesFreedLoop ==
    rpc = "shutdown_quit" => global_loop # "dangling"

\* ------------------------------------------------------------ SigSpec
\* The first draft's quit paths: main's quit key, the capture thread's
\* publishing of its loop and signal_handler, which all lock loop_mutex. The
\* handler runs on the thread the signal interrupts; that thread stands still
\* until the handler returns.

sigFrozen == <<rbVars, histVars, raceVars, delivVars, backend, audio_stream_active,
               streamState, schedVars, drawVars, selVars, cfgVars, anaVars, geomVars,
               winVars, galaxyVars, sizeVars, fadeVars>>

\* thread t is executing its own code: no handler is running on top of it
Runs(t) == hpc # "crashed" /\ (hpc \in {"none", "returned"} \/ sig_thread # t)

\* the threads that still exist
Alive(t) == IF t = "main" THEN rpc # "done" ELSE apc # "terminated"

\* ---- main
\* while (running) { ... }
S_MainLoopTest ==
    /\ Runs("main")
    /\ rpc = "loop_test"
    /\ rpc' = IF running THEN "getch" ELSE "join"
    /\ UNCHANGED <<running, apc, global_loop, quitPosted, sigVars, sigFrozen>>

\* int ch = getch(); 'q' or 'Q' takes the quit path, the rest of the tick
\* locks nothing
S_Getch ==
    /\ Runs("main")
    /\ rpc = "getch"
    /\ \E quit \in BOOLEAN : rpc' = IF quit THEN "q_flag" ELSE "loop_test"
    /\ UNCHANGED <<running, apc, global_loop, quitPosted, sigVars, sigFrozen>>

\* running = false;
S_QuitFlag ==
    /\ Runs("main")
    /\ rpc = "q_flag"
    /\ running' = FALSE
    /\ rpc' = "q_lock"
    /\ UNCHANGED <<apc, global_loop, quitPosted, sigVars, sigFrozen>>

\* std::lock_guard<std::mutex> lock(loop_mutex);
S_QuitLock ==
    /\ Runs("main")
    /\ rpc = "q_lock"
    /\ loop_mutex = "free"
    /\ loop_mutex' = "main"
    /\ rpc' = "q_quit"
    /\ UNCHANGED <<running, apc, global_loop, quitPosted, hpc, sig_thread, sigFrozen>>

\* if (global_pw_loop) pw_main_loop_quit(global_pw_loop);
S_QuitLoop ==
    /\ Runs("main")
    /\ rpc = "q_quit"
    /\ quitPosted' = (quitPosted \/ global_loop = "loop")
    /\ rpc' = "q_unlock"
    /\ UNCHANGED <<running, apc, global_loop, sigVars, sigFrozen>>

\* the lock_guard's scope ends
S_QuitUnlock ==
    /\ Runs("main")
    /\ rpc = "q_unlock"
    /\ loop_mutex' = "free"
    /\ rpc' = "loop_test"
    /\ UNCHANGED <<running, apc, global_loop, quitPosted, hpc, sig_thread, sigFrozen>>

\* if (audioThread.joinable()) audioThread.join();
S_Join ==
    /\ Runs("main")
    /\ rpc = "join"
    /\ JoinReturns(apc)
    /\ rpc' = "done"
    /\ UNCHANGED <<running, apc, global_loop, quitPosted, sigVars, sigFrozen>>

\* ---- audioCaptureThread (PipeWire, first draft)
\* while (running) { data.loop = pw_main_loop_new(nullptr);
S_CapLoopTest ==
    /\ Runs("capture")
    /\ apc = "loop_test"
    /\ apc' = IF running THEN "pub_lock" ELSE "terminated"
    /\ quitPosted' = IF running THEN FALSE ELSE quitPosted
    /\ UNCHANGED <<running, rpc, global_loop, sigVars, sigFrozen>>

\* { std::lock_guard<std::mutex> lock(loop_mutex);
S_PubLock ==
    /\ Runs("capture")
    /\ apc = "pub_lock"
    /\ loop_mutex = "free"
    /\ loop_mutex' = "capture"
    /\ apc' = "pub_store"
    /\ UNCHANGED <<running, rpc, global_loop, quitPosted, hpc, sig_thread, sigFrozen>>

\* global_pw_loop = data.loop;
S_PubStore ==
    /\ Runs("capture")
    /\ apc = "pub_store"
    /\ global_loop' = "loop"
    /\ apc' = "pub_unlock"
    /\ UNCHANGED <<running, rpc, quitPosted, sigVars, sigFrozen>>

\* }  then pw_stream_new_simple, pw_stream_connect
S_PubUnlock ==
    /\ Runs("capture")
    /\ apc = "pub_unlock"
    /\ loop_mutex' = "free"
    /\ apc' = "run"
    /\ UNCHANGED <<running, rpc, global_loop, quitPosted, hpc, sig_thread, sigFrozen>>

\* pw_main_loop_run(data.loop) returns once quit was called on the loop;
\* { std::lock_guard<std::mutex> lock(loop_mutex);
S_RunReturns ==
    /\ Runs("capture")
    /\ apc = "run"
    /\ quitPosted
    /\ apc' = "unpub_lock"
    /\ UNCHANGED <<running, rpc, global_loop, quitPosted, sigVars, sigFrozen>>

S_UnpubLock ==
    /\ Runs("capture")
    /\ apc = "unpub_lock"
    /\ loop_mutex = "free"
    /\ loop_mutex' = "capture"
    /\ apc' = "unpub_store"
    /\ UNCHANGED <<running, rpc, global_loop, quitPosted, hpc, sig_thread, sigFrozen>>

\* global_pw_loop = nullptr;
S_UnpubStore ==
    /\ Runs("capture")
    /\ apc = "unpub_store"
    /\ global_loop' = "null"
    /\ apc' = "unpub_unlock"
    /\ UNCHANGED <<running, rpc, quitPosted, sigVars, sigFrozen>>

\* }  pw_stream_destroy, pw_main_loop_destroy, audio_stream_active = false,
\* if (running) sleep_for(1 s)
S_UnpubUnlock ==
    /\ Runs("capture")
    /\ apc = "unpub_unlock"
    /\ loop_mutex' = "free"
    /\ apc' = "loop_test"
    /\ UNCHANGED <<running, rpc, global_loop, quitPosted, hpc, sig_thread, sigFrozen>>

\* ---- signal_handler
\* SIGINT or SIGTERM arrives and the kernel runs the handler on thread t
H_Deliver ==
    /\ hpc = "none"
    /\ \E t \in {"main", "capture"} :
          /\ Alive(t)
          /\ sig_thread' = t
    /\ hpc' = "flag"
    /\ UNCHANGED <<running, rpc, apc, global_loop, quitPosted, loop_mutex, sigFrozen>>

\* running = false;
H_Flag ==
    /\ hpc = "flag"
    /\ running' = FALSE
    /\ hpc' = "lock"
    /\ UNCHANGED <<rpc, apc, global_loop, quitPosted, loop_mutex, sig_thread, sigFrozen>>

\* the thread the handler runs on holds loop_mutex already
HeldBelow == loop_mutex = sig_thread
\* std::lock_guard<std::mutex> lock(loop_mutex); locking a std::mutex the
\* calling thread owns is undefined: the call never returns, or it throws
\* std::system_error out of the handler and the process is terminated
H_Lock ==
    /\ hpc = "lock"
    /\ IF HeldBelow
       THEN /\ hpc' \in {"blocked", "crashed"}
            /\ UNCHANGED loop_mutex
       ELSE /\ loop_mutex = "free"
            /\ loop_mutex' = "handler"
            /\ hpc' = "quit"
    /\ UNCHANGED <<running, rpc, apc, global_loop, quitPosted, sig_thread, sigFrozen>>

\* if (global_pw_loop) { pw_main_loop_quit(global_pw_loop); }
H_Quit ==
    /\ hpc = "quit"
    /\ quitPosted' = (quitPosted \/ global_loop = "loop")
    /\ hpc' = "unlock"
    /\ UNCHANGED <<running, rpc, apc, global_loop, loop_mutex, sig_thread, sigFrozen>>

\* the handler returns, the interrupted thread goes on
H_Return ==
    /\ hpc = "unlock"
    /\ loop_mutex' = "free"
    /\ hpc' = "returned"
    /\ UNCHANGED <<running, rpc, apc, global_loop, quitPosted, sig_thread, sigFrozen>>

SigInit ==
    /\ RbInit /\ HistInit /\ RaceIdle /\ SysStart /\ DelivInit /\ backend = "pipewire"
    /\ SideIdle

SigNext ==
    \/ S_MainLoopTest
    \/ S_Getch
    \/ S_QuitFlag
    \/ S_QuitLock
    \/ S_QuitLoop
    \/ S_QuitUnlock
    \/ S_Join
    \/ S_CapLoopTest
    \/ S_PubLock
    \/ S_PubStore
    \/ S_PubUnlock
    \/ S_RunReturns
    \/ S_UnpubLock
    \/ S_UnpubStore
    \/ S_UnpubUnlock
    \/ H_Deliver
    \/ H_Flag
    \/ H_Lock
    \/ H_Quit
    \/ H_Return

SigSpec == SigInit /\ [][SigNext]_vars

\* ------------------------------------------------------------ claim C29
\* C29: wherever a termination signal interrupts main or the capture thread,
\* signal_handler's lock of loop_mutex is neither blocked for ever nor the
\* end of the process: the handler goes on to return.
C29_SignalNeverDeadlocks ==
    hpc \notin {"blocked", "crashed"}

\* ------------------------------------------------------------ claim C30
\* the place in write order of the frame the consumer holds: n for Frame(n),
\* 0 for the zeros it holds before the first successful read
FrameNo(left, right) ==
    CHOOSE n \in 0 .. MaxWrites :
        IF n = 0 THEN left = ZeroChan /\ right = ZeroChan
        ELSE left = DeintLeft(Frame(n)) /\ right = DeintRight(Frame(n))

\* C30: with write and read atomic, every successful read hands back a frame
\* written later than the frame the successful read before it handed back:
\* no frame is returned twice and none after a later one, overruns included.
C30_ReadsStrictlyIncreasing ==
    [][(runReads' = runReads + 1 /\ readRet' = "true") =>
           FrameNo(leftAudio', rightAudio') > FrameNo(leftAudio, rightAudio)]_vars

\* C30 witness: the producer wrote BUFFER_COUNT + 2 frames into the empty
\* buffer, lapping the consumer, and the second of two successful reads
\* handed back the newest frame.
C30_Witness ==
    /\ runEmpty /\ runWrites = BUFFER_COUNT + 2 /\ runReads = 2
    /\ readRet = "true" /\ GotFrame(nw)

\* ------------------------------------------------------------ claim C33
\* C33: a write changes only the slot at the head and the head, which goes up
\* by 1 modulo BUFFER_COUNT, and leaves the tail alone; a successful read
\* changes only the tail, which goes up by 1 modulo BUFFER_COUNT, and leaves
\* the head and every slot alone; a read of an empty buffer changes nothing,
\* the destination buffers included.  Head and tail stay in 0 .. BUFFER_COUNT-1.
C33_FrameEffect ==
    [][/\ (nw' = nw + 1 =>
              /\ m_head' = (m_head + 1) % BUFFER_COUNT
              /\ m_tail' = m_tail
              /\ \A s \in SlotIdx : s # m_head => m_buffer'[s] = m_buffer[s]
              /\ UNCHANGED <<leftAudio, rightAudio>>)
       /\ ((runReads' = runReads + 1 /\ readRet' = "true") =>
              /\ m_tail' = (m_tail + 1) % BUFFER_COUNT
              /\ UNCHANGED <<m_head, m_buffer>>)
       /\ ((runReads' = runReads + 1 /\ readRet' = "false") =>
              UNCHANGED <<m_head, m_tail, m_buffer, leftAudio, rightAudio>>)
       /\ m_head' \in SlotIdx
       /\ m_tail' \in SlotIdx]_vars

\* C33 witness: head and tail have both gone round the buffer, the tail by a
\* successful read, and an empty read followed.
C33_Witness ==
    /\ nw >= BUFFER_COUNT
    /\ m_tail = 0 /\ m_head = 0
    /\ runReads >= 2 /\ readRet = "false" /\ GotFrame(nw)

\* ------------------------------------------------------------ claim C34
\* C34: a successful read hands back the slot at the tail deinterleaved:
\* left[i] is its sample 2i and right[i] its sample 2i + 1, for every i.
C34_ReadDeinterleaves ==
    [][(runReads' = runReads + 1 /\ readRet' = "true") =>
           \A i \in PairIdx :
               /\ leftAudio'[i] = m_buffer[m_tail][2 * i]
               /\ rightAudio'[i] = m_buffer[m_tail][2 * i + 1]]_vars

\* C34 witness: two frames were written into the empty buffer and the second
\* read handed back the second.
C34_Witness ==
    /\ runEmpty /\ runWrites = 2 /\ runReads = 2
    /\ readRet = "true" /\ GotFrame(nw)

\* ------------------------------------------------------------ claim C35
\* C35: the deadline of a tick is the deadline of the tick before plus one
\* frame_duration, whatever the clock says, and nothing else moves it; the
\* tick then waits until the deadline when the deadline is ahead of the clock
\* and does not wait at all otherwise.
C35_DeadlineAccumulates ==
    [][/\ (tpc = "top" /\ tpc' = "body" =>
              next_frame_time' = next_frame_time + frame_duration)
       /\ (tpc # "top" => next_frame_time' = next_frame_time)
       /\ (tpc = "sleep" /\ tpc' = "top" =>
              /\ sleep_duration' = next_frame_time - now
              /\ IF next_frame_time - now > 0
                 THEN now' >= next_frame_time
                 ELSE now' = now)]_vars

\* C35 witness: a second or later tick whose body ran past its deadline has
\* been through its sleep step.
C35_Witness ==
    /\ tpc = "top" /\ late /\ sleep_duration < 0
    /\ next_frame_time >= 2 * frame_duration

\* ------------------------------------------------------------ claim C36
\* C36: the colour-fade value follows the smoothed level by the smoother's own
\* rule: on a tick where the new level is above the fade value the fade value
\* rises by the proportional attack, fade + (level - fade) * rise_factor, and
\* otherwise it falls by the fixed step color_decay_rate, not below the level.
\* Stated for the default decay step of the levels.
C36_FadeMirrorsSmoother ==
    [][(DrawStep /\ audio_stream_active /\ decay__factor = DefaultDecay) =>
          \A k \in DOMAIN ColorDecays :
             ColorDecays'[k] =
                IF Levels'[k] > ColorDecays[k]
                THEN ColorDecays[k] + ((Levels'[k] - ColorDecays[k]) * rise_factor) \div 10
                ELSE Max(Levels'[k], ColorDecays[k] - color_decay_rate)]_vars

\* ------------------------------------------------------------ FadeSpec
\* getFadedColorPairID as a function of the level, the fade value and the
\* decay rate: the caller keeps the fade value between calls, as the draw
\* functions do in their static locals, and the level changes when it likes.

FadeGrid == 0 .. MaxFade

\* one call: lastDecay is updated
F_Call ==
    /\ fade_calls <= MaxFade
    /\ fade_value' = FadedDecay(fade_level, fade_value, fade_rate)
    /\ fade_calls' = fade_calls + 1
    /\ UNCHANGED <<fade_level, fade_rate, fade_start>>
    /\ UNCHANGED <<coreVars, schedVars, drawVars, selVars, cfgVars, anaVars, geomVars,
                   winVars, galaxyVars, sizeVars, sigVars>>

\* the smoothed level of the next tick is another one
F_Level ==
    /\ \E l \in FadeGrid :
          /\ l # fade_level
          /\ fade_level' = l
    /\ fade_start' = fade_value
    /\ fade_calls' = 0
    /\ UNCHANGED <<fade_value, fade_rate>>
    /\ UNCHANGED <<coreVars, schedVars, drawVars, selVars, cfgVars, anaVars, geomVars,
                   winVars, galaxyVars, sizeVars, sigVars>>

FadeInit ==
    /\ CoreIdle /\ SchedInit /\ DrawIdle /\ SelIdle /\ CfgIdle
    /\ AnaIdle /\ GeomIdle /\ WinIdle /\ GalaxyIdle /\ SizeIdle /\ SigIdle
    /\ fade_level \in FadeGrid
    /\ fade_value \in FadeGrid
    /\ fade_rate \in 1 .. MaxRate
    /\ fade_start = fade_value
    /\ fade_calls = 0

FadeNext == F_Call \/ F_Level

FadeSpec == FadeInit /\ [][FadeNext]_vars

\* ceil(a / b) for a >= 0, b > 0
CeilDiv(a, b) == (a + b - 1) \div b

\* ------------------------------------------------------------ claim C37
\* C37: a call of getFadedColorPairID leaves the fade value between its old
\* value and the level, at most decay_rate away from the old value; and once
\* the level has been the same for ceil(|level - fade| / decay_rate) calls,
\* counted from the fade value it had when the level was set, the fade value
\* is the level and stays it.
C37_FadeApproachesLevel ==
    [][fade_calls' = fade_calls + 1 =>
          /\ Min(fade_value, fade_level) <= fade_value'
          /\ fade_value' <= Max(fade_value, fade_level)
          /\ Abs(fade_value' - fade_value) <= fade_rate
          /\ (fade_calls' >= CeilDiv(Abs(fade_level - fade_start), fade_rate)
                 => fade_value' = fade_level)]_vars

\* C37 witness: with a rate that does not divide the gap, the last call was
\* cut short at the level, and a call after it left the value there.
C37_Witness ==
    /\ fade_rate = 2
    /\ Abs(fade_level - fade_start) = 3
    /\ fade_calls = 3
    /\ fade_value = fade_level

\* ------------------------------------------------------------ claim C38
\* the longest life left among the particles, 0 when there is none
RECURSIVE LifeLeft(_)
LifeLeft(ps) ==
    IF ps = <<>> THEN 0 ELSE Max(ps[1].life, LifeLeft(Tail(ps)))

ModeState(m) ==
    CASE m = VU_METER  -> <<leftLevel, rightLevel, leftColorDecay, rightColorDecay>>
      [] m = BAR_GRAPH -> <<leftPeakHeights, rightPeakHeights,
                            barLeftColorDecay, barRightColorDecay>>
      [] m = GALAXY    -> <<particles>>
      [] m = ECLIPSE   -> <<pointAmplitudes>>
      [] OTHER         -> <<shapeAmplitudes>>

\* the modes of a configuration with two custom shapes
AllModes == {VU_METER, BAR_GRAPH, GALAXY, ECLIPSE,
             NUM_BUILT_IN_MODES, NUM_BUILT_IN_MODES + 1}

\* C39: a tick drawn in one mode leaves the state of every other mode as it
\* was, whether the stream is active or not.  Stated for the default decay
\* step.
C39_OtherModesUntouched ==
    [][(DrawStep /\ decay__factor = DefaultDecay) =>
          \A m \in AllModes \ {currentModeIdx} : ModeState(m)' = ModeState(m)]_vars

\* ------------------------------------------------------------ claim C32
\* C32: the flag value a tick hands to the draw function is the value that
\* chose between the zero-filled frame and the read earlier in the tick: a
\* draw function that is told the stream is inactive is given the zero-filled
\* frame.
C32_FlagSnapshot ==
    [][(DrawStep /\ currentModeIdx \in {VU_METER, BAR_GRAPH} /\ ~audio_stream_active) =>
          SilentInput]_vars

\* ------------------------------------------------------------ claim C31
\* C31: once the stream has gone inactive and has become active again, a tick
\* of main's loop does not read, and so does not render, a frame that capture
\* wrote to the ring buffer before the stream went inactive.
C31_NoStaleFrameAfterReconnect ==
    [][(rpc = "audio" /\ rpc' = "draw" /\ audio_stream_active /\ readRet' = "true") =>
           ~(\E n \in 1 .. nw_disc : GotFrame(n)')]_vars

=============================================================================
